---- MODULE Spec2Model ----
(***************************************************************************)
(* A model of the T8 client library (t8_client/utils.py, t8_client/t8.py), *)
(* the package the tests and tools/t8_cli.py import.  src/t8_client/ holds *)
(* an older copy of the same modules and is not what is modelled.          *)
(*                                                                         *)
(* Text is a TLA+ string, a byte buffer is a sequence of 0..255, a numpy   *)
(* array is a record [dtype, items] whose items are the little-endian byte *)
(* groups of its elements (numpy.frombuffer is a view of those bytes).     *)
(* The outcome of a call is a record [ok, err, val]: a returned value, or  *)
(* the exception the call raised.                                          *)
(***************************************************************************)
EXTENDS Integers, Sequences, FiniteSets, TLC

VARIABLES
    op,     \* the client operation that ran last ("none" after construction)
    arg,    \* its arguments
    ret,    \* its outcome
    srv,    \* what the server held or answered for that call
    reqs,   \* the HTTP GETs the call issued, in order
    errs,   \* the messages a command of the tool wrote to standard error
    files   \* the files a command of the tool wrote, in order

vars == <<op, arg, ret, srv, reqs, errs, files>>

(***************************************************************************)
(* Bounds of the model.                                                    *)
(***************************************************************************)
MaxChunks == 2      \* most chunks in a payload buffer handed to decode_array
MaxSamples == 3     \* longest sample list a wave or spectrum carries
MaxStamps == 3      \* longest list handed to format_timestamps
MaxItems == 3        \* most links in a listing of the appliance
MaxTrend == 2        \* most elements of a field of a trend that is sound
MaxRedirects == 1    \* most redirects requests follows before the final answer
MaxSegs == 3        \* most path segments a listing appends to its base

\* A payload buffer is a concatenation of these: a lone byte (which breaks
\* the alignment of what follows), the int16 -24455, the floats 1.0 and -2.0.
Chunks == {<<1>>, <<121, 160>>, <<0, 0, 128, 63>>, <<0, 0, 0, 192>>}

(***************************************************************************)
(* Outcomes.                                                               *)
(***************************************************************************)
Ok(v) == [ok |-> TRUE, err |-> "", val |-> v]
Raise(e) == [ok |-> FALSE, err |-> e, val |-> <<>>]

RECURSIVE Pow2(_)
Pow2(n) == IF n = 0 THEN 1 ELSE 2 * Pow2(n - 1)

CharAt(s, i) == SubSeq(s, i, i)

\* key in dict
Has(d, k) == k \in DOMAIN d

\* The({e : x \in {v}}) is e with x standing for the value of v: Python's
\* x = v followed by e.  The value of v is computed once.
The(S) == CHOOSE e \in S : TRUE

(***************************************************************************)
(* base64.b64decode(s) with validate=False, i.e. binascii.a2b_base64 in    *)
(* its non-strict mode: a character outside the alphabet is skipped, a pad *)
(* that completes a quad ends the parse, and data left in an incomplete    *)
(* quad at the end of the input raises binascii.Error.                     *)
(***************************************************************************)
B64Chars == "ABCDEFGHIJKLMNOPQRSTUVWXYZabcdefghijklmnopqrstuvwxyz0123456789+/"

B64Alphabet == {CharAt(B64Chars, i) : i \in 1..64}

B64Value == [c \in B64Alphabet |-> (CHOOSE i \in 1..64 : CharAt(B64Chars, i) = c) - 1]

RECURSIVE a2b_base64(_, _, _, _, _, _)
a2b_base64(s, i, quad_pos, leftchar, pads, out) ==
    IF i > Len(s)
    THEN IF quad_pos # 0 THEN Raise("binascii.Error") ELSE Ok(out)
    ELSE LET c == CharAt(s, i) IN
         IF c = "="
         THEN IF quad_pos >= 2 /\ quad_pos + pads + 1 >= 4
              THEN Ok(out)
              ELSE a2b_base64(s, i + 1, quad_pos, leftchar,
                              IF quad_pos >= 2 THEN pads + 1 ELSE pads, out)
         ELSE IF c \notin B64Alphabet
         THEN a2b_base64(s, i + 1, quad_pos, leftchar, pads, out)
         ELSE LET v == B64Value[c] IN
              CASE quad_pos = 0 ->
                     a2b_base64(s, i + 1, 1, v, 0, out)
                [] quad_pos = 1 ->
                     a2b_base64(s, i + 1, 2, v % 16, 0,
                                Append(out, leftchar * 4 + v \div 16))
                [] quad_pos = 2 ->
                     a2b_base64(s, i + 1, 3, v % 4, 0,
                                Append(out, leftchar * 16 + v \div 4))
                [] quad_pos = 3 ->
                     a2b_base64(s, i + 1, 0, 0, 0,
                                Append(out, leftchar * 64 + v))

b64decode(s) == a2b_base64(s, 1, 0, 0, 0, <<>>)

(***************************************************************************)
(* zlib.decompress(data): the zlib header, the deflate blocks, the Adler-32*)
(* trailer.  The appliance frames its arrays in stored blocks (the payload *)
(* of tests/test_utils.py is one stored block of 400 bytes and an empty    *)
(* final one), and those are the blocks inflated here; a Huffman-coded     *)
(* block (BTYPE 1 or 2) is outside the model and no input carries one.     *)
(* Bytes after the trailer are ignored, as zlib.decompress ignores them.   *)
(***************************************************************************)
RECURSIVE adler32_sums(_, _, _, _)
adler32_sums(data, i, a, b) ==
    IF i > Len(data) THEN <<a, b>>
    ELSE LET a2 == (a + data[i]) % 65521 IN
         adler32_sums(data, i + 1, a2, (b + a2) % 65521)

\* the four bytes of the checksum, big-endian as the trailer stores them
adler32(data) ==
    LET ab == adler32_sums(data, 1, 1, 0) IN
    <<ab[2] \div 256, ab[2] % 256, ab[1] \div 256, ab[1] % 256>>

inflate_check(data, pos, out) ==
    IF pos + 3 > Len(data) THEN Raise("zlib.error")
    ELSE IF SubSeq(data, pos, pos + 3) # adler32(out) THEN Raise("zlib.error")
    ELSE Ok(out)

RECURSIVE inflate_blocks(_, _, _)
inflate_blocks(data, pos, out) ==
    IF pos > Len(data) THEN Raise("zlib.error")
    ELSE LET bfinal == data[pos] % 2
             btype == (data[pos] \div 2) % 4
         IN
         IF btype = 3 THEN Raise("zlib.error")
         ELSE IF btype # 0 THEN Raise("unmodelled")
         ELSE IF pos + 4 > Len(data) THEN Raise("zlib.error")
         ELSE LET len == data[pos + 1] + 256 * data[pos + 2]
                  nlen == data[pos + 3] + 256 * data[pos + 4]
              IN
              IF len + nlen # 65535 THEN Raise("zlib.error")
              ELSE IF pos + 4 + len > Len(data) THEN Raise("zlib.error")
              ELSE LET out2 == out \o SubSeq(data, pos + 5, pos + 4 + len) IN
                   IF bfinal = 1
                   THEN inflate_check(data, pos + 5 + len, out2)
                   ELSE inflate_blocks(data, pos + 5 + len, out2)

decompress(data) ==
    IF Len(data) < 2 THEN Raise("zlib.error")
    ELSE LET cmf == data[1]
             flg == data[2]
         IN
         IF (cmf * 256 + flg) % 31 # 0 THEN Raise("zlib.error")
         ELSE IF cmf % 16 # 8 THEN Raise("zlib.error")
         ELSE IF cmf \div 16 > 7 THEN Raise("zlib.error")
         ELSE IF (flg \div 32) % 2 = 1 THEN Raise("zlib.error")
         ELSE inflate_blocks(data, 3, <<>>)

(***************************************************************************)
(* numpy.  An array is [dtype, items]; items[i] is the little-endian byte  *)
(* group of element i, as the buffer holds it.                             *)
(***************************************************************************)
DTypes == {"float32", "uint8", "uint16", "uint32"}

itemsize == [d \in DTypes \cup {"int16"} |->
                CASE d = "uint8" -> 1
                  [] d \in {"int16", "uint16"} -> 2
                  [] OTHER -> 4]

Array(dtype, items) == [dtype |-> dtype, items |-> items]

\* frombuffer reading each element from its last byte to its first
frombuffer_byteswapped(buf, dtype) ==
    LET w == itemsize[dtype] IN
    IF Len(buf) % w # 0 THEN Raise("ValueError: buffer size")
    ELSE Ok(Array(dtype,
                  [i \in 1..(Len(buf) \div w) |->
                      [k \in 1..w |-> buf[i * w + 1 - k]]]))

\* frombuffer keeping the whole elements and dropping the bytes left over
frombuffer_truncating(buf, dtype) ==
    LET w == itemsize[dtype] IN
    Ok(Array(dtype,
             [i \in 1..(Len(buf) \div w) |-> SubSeq(buf, (i - 1) * w + 1, i * w)]))

\* numpy.frombuffer(buf, dtype): a view of the whole buffer, which must be a
\* whole number of elements.
frombuffer(buf, dtype) ==
    LET w == itemsize[dtype] IN
    IF Len(buf) % w # 0 THEN Raise("ValueError: buffer size")
    ELSE Ok(Array(dtype,
                  [i \in 1..(Len(buf) \div w) |-> SubSeq(buf, (i - 1) * w + 1, i * w)]))

\* the value of a little-endian signed 16-bit element
Int16Value(item) ==
    LET u == item[1] + 256 * item[2] IN
    IF u >= 32768 THEN u - 65536 ELSE u

RECURSIVE FloorLog2(_)
FloorLog2(n) == IF n < 2 THEN 0 ELSE 1 + FloorLog2(n \div 2)

\* the IEEE-754 binary32 encoding (little-endian bytes) of an integer of
\* magnitude below 2^24, which binary32 holds exactly
F32OfInt(v) ==
    IF v = 0 THEN <<0, 0, 0, 0>>
    ELSE LET sign == IF v < 0 THEN 1 ELSE 0
             mag == IF v < 0 THEN -v ELSE v
             e == FloorLog2(mag)
             mant == mag * Pow2(23 - e) - Pow2(23)
             expf == e + 127
         IN
         <<mant % 256, (mant \div 256) % 256,
           (expf % 2) * 128 + mant \div 65536,
           sign * 128 + expf \div 2>>

\* the integer a binary32 element denotes, when it denotes one
F32Sign(item) == item[4] \div 128
F32Exp(item) == (item[4] % 128) * 2 + item[3] \div 128
F32Mant(item) == (item[3] % 128) * 65536 + item[2] * 256 + item[1]

F32IsInt(item) ==
    \/ F32Exp(item) = 0 /\ F32Mant(item) = 0
    \/ /\ F32Exp(item) >= 127
       /\ F32Exp(item) <= 150
       /\ (Pow2(23) + F32Mant(item)) % Pow2(150 - F32Exp(item)) = 0

F32Value(item) ==
    IF F32Exp(item) = 0 THEN 0
    ELSE LET mag == (Pow2(23) + F32Mant(item)) \div Pow2(150 - F32Exp(item)) IN
         IF F32Sign(item) = 1 THEN -mag ELSE mag

\* astype reading the 16 bits as an unsigned number
astype_int16_unsigned(item, dtype) ==
    CASE dtype = "float32" -> F32OfInt(item[1] + 256 * item[2])
      [] dtype = "uint8" -> <<item[1]>>
      [] dtype = "uint16" -> item
      [] dtype = "uint32" -> <<item[1], item[2], 0, 0>>

\* ndarray.astype(dtype) of an int16 array: the C conversion of each element
astype_int16(item, dtype) ==
    LET ext == IF item[2] >= 128 THEN 255 ELSE 0 IN
    CASE dtype = "float32" -> F32OfInt(Int16Value(item))
      [] dtype = "uint8" -> <<item[1]>>
      [] dtype = "uint16" -> item
      [] dtype = "uint32" -> <<item[1], item[2], ext, ext>>

astype(a, dtype) ==
    Array(dtype, [i \in 1..Len(a.items) |-> astype_int16(a.items[i], dtype)])

(***************************************************************************)
(* utils.decode_array(raw, fmt, dtype)                                     *)
(***************************************************************************)
\* decode_array taking an unrecognised fmt for "b64"
decode_array_fallback(raw, fmt, dtype) ==
    LET data == b64decode(raw) IN
    IF ~data.ok THEN data
    ELSE IF fmt = "zint"
    THEN LET d == decompress(data.val) IN
         IF ~d.ok THEN d
         ELSE LET a == frombuffer(d.val, "int16") IN
              IF ~a.ok THEN a ELSE Ok(astype(a.val, dtype))
    ELSE IF fmt = "zlib"
    THEN LET d == decompress(data.val) IN
         IF ~d.ok THEN d ELSE frombuffer(d.val, dtype)
    ELSE frombuffer(data.val, dtype)

decode_array(raw, fmt, dtype) ==
    LET data == b64decode(raw) IN
    IF ~data.ok THEN data
    ELSE IF fmt = "zint"
    THEN LET d == decompress(data.val) IN
         IF ~d.ok THEN d
         ELSE LET a == frombuffer(d.val, "int16") IN
              IF ~a.ok THEN a ELSE Ok(astype(a.val, dtype))
    ELSE IF fmt = "zlib"
    THEN LET d == decompress(data.val) IN
         IF ~d.ok THEN d ELSE frombuffer(d.val, dtype)
    ELSE IF fmt = "b64"
    THEN frombuffer(data.val, dtype)
    ELSE Raise("ValueError: Unknown array format")

(***************************************************************************)
(* utils: timestamps.                                                      *)
(***************************************************************************)
DigitChars == "0123456789"

Digits == {CharAt(DigitChars, i) : i \in 1..10}

DigitValue == [c \in Digits |-> (CHOOSE i \in 1..10 : CharAt(DigitChars, i) = c) - 1]

\* str(n) padded with zeros to the width of an isoformat() field
Pad(n, width) ==
    LET t == ToString(n) IN
    SubSeq("0000", 1, width - Len(t)) \o t

\* the proleptic Gregorian date of a day number counted from 1970-01-01
CivilFromDays(days) ==
    LET z == days + 719468
        era == z \div 146097
        doe == z - era * 146097
        yoe == (doe - doe \div 1460 + doe \div 36524 - doe \div 146096) \div 365
        doy == doe - (365 * yoe + yoe \div 4 - yoe \div 100)
        mp == (5 * doy + 2) \div 153
        d == doy - (153 * mp + 2) \div 5 + 1
        m == IF mp < 10 THEN mp + 3 ELSE mp - 9
        y == yoe + era * 400 + (IF m <= 2 THEN 1 ELSE 0)
    IN [year |-> y, month |-> m, day |-> d]

\* utils.format_timestamp: datetime.fromtimestamp(t, tz=UTC).isoformat()
format_timestamp(timestamp) ==
    LET date == CivilFromDays(timestamp \div 86400)
        secs == timestamp % 86400
    IN Pad(date.year, 4) \o "-" \o Pad(date.month, 2) \o "-" \o Pad(date.day, 2)
         \o "T" \o Pad(secs \div 3600, 2) \o ":" \o Pad((secs \div 60) % 60, 2)
         \o ":" \o Pad(secs % 60, 2) \o "+00:00"

\* format_timestamps formatting every element, 0 included
RECURSIVE format_timestamps_unfiltered(_)
format_timestamps_unfiltered(timestamps) ==
    IF timestamps = <<>> THEN <<>>
    ELSE <<format_timestamp(Head(timestamps))>>
             \o format_timestamps_unfiltered(Tail(timestamps))

\* utils.format_timestamps: [format_timestamp(t) for t in timestamps if t]
RECURSIVE format_timestamps(_)
format_timestamps(timestamps) ==
    IF timestamps = <<>> THEN <<>>
    ELSE (IF Head(timestamps) # 0 THEN <<format_timestamp(Head(timestamps))>> ELSE <<>>)
             \o format_timestamps(Tail(timestamps))

(***************************************************************************)
(* utils: resource links.  A link is {"_links": {"self": url}}.            *)
(***************************************************************************)
\* str.split(sep) for a one-character separator
RECURSIVE split_from(_, _, _, _)
split_from(s, sep, i, cur) ==
    IF i > Len(s) THEN <<cur>>
    ELSE IF CharAt(s, i) = sep THEN <<cur>> \o split_from(s, sep, i + 1, "")
    ELSE split_from(s, sep, i + 1, cur \o CharAt(s, i))

split(s, sep) == split_from(s, sep, 1, "")

\* str.strip(chars): drop the leading and the trailing characters in chars
RECURSIVE lstrip(_, _)
lstrip(s, chars) ==
    IF Len(s) > 0 /\ CharAt(s, 1) \in chars THEN lstrip(Tail(s), chars) ELSE s

RECURSIVE rstrip(_, _)
rstrip(s, chars) ==
    IF Len(s) > 0 /\ CharAt(s, Len(s)) \in chars
    THEN rstrip(SubSeq(s, 1, Len(s) - 1), chars)
    ELSE s

strip(s, chars) == rstrip(lstrip(s, chars), chars)

Whitespace == {" ", "\n", "\t", "\r"}

RECURSIVE DecimalOf(_, _)
DecimalOf(s, acc) ==
    IF s = "" THEN acc
    ELSE IF Head(s) = "_" THEN DecimalOf(Tail(s), acc)
    ELSE DecimalOf(Tail(s), acc * 10 + DigitValue[Head(s)])

\* int(s) of a str: surrounding whitespace is dropped, a sign may lead, and
\* single underscores may separate the digits
int(s) ==
    LET t == strip(s, Whitespace)
        signed == Len(t) > 0 /\ Head(t) \in {"+", "-"}
        body == IF signed THEN Tail(t) ELSE t
        wellFormed ==
            /\ Len(body) > 0
            /\ \A i \in 1..Len(body) : CharAt(body, i) \in Digits \cup {"_"}
            /\ Head(body) # "_"
            /\ CharAt(body, Len(body)) # "_"
            /\ \A i \in 1..(Len(body) - 1) :
                  ~(CharAt(body, i) = "_" /\ CharAt(body, i + 1) = "_")
    IN
    IF ~wellFormed THEN Raise("ValueError: invalid literal for int()")
    ELSE Ok(IF signed /\ Head(t) = "-" THEN -DecimalOf(body, 0) ELSE DecimalOf(body, 0))

IsDigits(s) == Len(s) > 0 /\ \A i \in 1..Len(s) : CharAt(s, i) \in Digits

\* the day number, counted from 1970-01-01, of a proleptic Gregorian date
DaysFromCivil(year, month, day) ==
    LET y == IF month <= 2 THEN year - 1 ELSE year
        era == y \div 400
        yoe == y - era * 400
        doy == (153 * (IF month > 2 THEN month - 3 ELSE month + 9) + 2) \div 5 + day - 1
        doe == yoe * 365 + yoe \div 4 - yoe \div 100 + doy
    IN era * 146097 + doe - 719468

DaysInMonth(year, month) ==
    IF month = 2
    THEN IF year % 4 = 0 /\ (year % 100 # 0 \/ year % 400 = 0) THEN 29 ELSE 28
    ELSE IF month \in {4, 6, 9, 11} THEN 30 ELSE 31

\* the date of datetime.fromisoformat: YYYY-MM-DD
isoformat_date(dstr) ==
    IF ~(IsDigits(SubSeq(dstr, 1, 4)) /\ CharAt(dstr, 5) = "-"
            /\ IsDigits(SubSeq(dstr, 6, 7)) /\ CharAt(dstr, 8) = "-"
            /\ IsDigits(SubSeq(dstr, 9, 10)))
    THEN IF IsDigits(SubSeq(dstr, 1, 8)) \/ CharAt(dstr, 5) = "W" \/ CharAt(dstr, 6) = "W"
         THEN Raise("unmodelled")
         ELSE Raise("ValueError: Invalid isoformat string")
    ELSE LET year == DecimalOf(SubSeq(dstr, 1, 4), 0)
             month == DecimalOf(SubSeq(dstr, 6, 7), 0)
             day == DecimalOf(SubSeq(dstr, 9, 10), 0)
         IN IF year < 1 \/ month \notin 1..12 \/ day < 1 \/ day > DaysInMonth(year, month)
            THEN Raise("ValueError: Invalid isoformat string")
            ELSE Ok(DaysFromCivil(year, month, day))

\* the time of day of datetime.fromisoformat: HH[:MM[:SS[.ffffff]]]
isoformat_time(clock) ==
    LET n == Len(clock)
        shaped == /\ n \in {2, 5, 8} \cup 10..15
                  /\ IsDigits(SubSeq(clock, 1, 2))
                  /\ n >= 5 => CharAt(clock, 3) = ":" /\ IsDigits(SubSeq(clock, 4, 5))
                  /\ n >= 8 => CharAt(clock, 6) = ":" /\ IsDigits(SubSeq(clock, 7, 8))
                  /\ n >= 10 => CharAt(clock, 9) \in {".", ","}
                                    /\ IsDigits(SubSeq(clock, 10, n))
        hour == DecimalOf(SubSeq(clock, 1, 2), 0)
        minute == IF n >= 5 THEN DecimalOf(SubSeq(clock, 4, 5), 0) ELSE 0
        second == IF n >= 8 THEN DecimalOf(SubSeq(clock, 7, 8), 0) ELSE 0
        micro == IF n >= 10
                 THEN DecimalOf(SubSeq(clock, 10, n) \o SubSeq("000000", 1, 15 - n), 0)
                 ELSE 0
    IN IF \/ IsDigits(clock) /\ n \in {4, 6}
          \/ n > 15 /\ IsDigits(SubSeq(clock, 10, n))
          \/ n > 2 /\ CharAt(clock, 3) \in {".", ","}
          \/ n > 5 /\ CharAt(clock, 6) \in {".", ","}
          \/ n = 9 /\ CharAt(clock, 9) \in {".", ","}
       THEN Raise("unmodelled")
       ELSE IF ~shaped \/ hour > 23 \/ minute > 59 \/ second > 59
       THEN Raise("ValueError: Invalid isoformat string")
       ELSE Ok([secs |-> hour * 3600 + minute * 60 + second, micro |-> micro])

\* the offset of datetime.fromisoformat: nothing, Z, or +HH:MM / -HH:MM
isoformat_tz(tz) ==
    IF tz = "" THEN Ok([aware |-> FALSE, utcoffset |-> 0])
    ELSE IF tz = "Z" THEN Ok([aware |-> TRUE, utcoffset |-> 0])
    ELSE IF Head(tz) = "Z" THEN Raise("ValueError: Invalid isoformat string")
    ELSE IF Len(tz) # 6
    THEN IF Len(tz) > 2 THEN Raise("unmodelled")
         ELSE Raise("ValueError: Invalid isoformat string")
    ELSE LET time == isoformat_time(Tail(tz)) IN
         IF ~time.ok THEN time
         ELSE Ok([aware |-> TRUE,
                  utcoffset |-> (IF Head(tz) = "-" THEN -1 ELSE 1) * (time.val.secs \div 60)])

\* datetime.fromisoformat of Python 3.11, for the extended format
fromisoformat(text) ==
    IF Len(text) < 10 THEN
        IF IsDigits(text) /\ Len(text) \in {7, 8} THEN Raise("unmodelled")
        ELSE Raise("ValueError: Invalid isoformat string")
    ELSE LET date == isoformat_date(SubSeq(text, 1, 10))
             tstr == SubSeq(text, 12, Len(text))
             marks == {i \in 1..Len(tstr) : CharAt(tstr, i) \in {"+", "-", "Z"}}
             cut == IF marks = {} THEN Len(tstr) + 1
                    ELSE CHOOSE i \in marks : \A j \in marks : i <= j
             time == IF Len(text) = 10 THEN Ok([secs |-> 0, micro |-> 0])
                     ELSE isoformat_time(SubSeq(tstr, 1, cut - 1))
             tz == isoformat_tz(SubSeq(tstr, cut, Len(tstr)))
         IN IF ~date.ok THEN date
            ELSE IF Len(text) = 11 THEN Raise("ValueError: Invalid isoformat string")
            ELSE IF ~time.ok THEN time
            ELSE IF ~tz.ok THEN tz
            ELSE Ok([days |-> date.val, secs |-> time.val.secs,
                     micro |-> time.val.micro, aware |-> tz.val.aware,
                     utcoffset |-> tz.val.utcoffset])

\* utils.parse_timestamp: int(datetime.fromisoformat(timestamp).timestamp()).
\* timestamp() takes a text without offset as local time: local is the
\* offset of the time zone of the process from UTC, in minutes.  int() of
\* the float drops the fraction towards zero.
parse_timestamp(timestamp, local) ==
    The({IF ~dt.ok THEN dt
         ELSE LET offset == IF dt.val.aware THEN dt.val.utcoffset ELSE local
                  whole == dt.val.days * 86400 + dt.val.secs - offset * 60
              IN Ok(IF whole < 0 /\ dt.val.micro > 0 THEN whole + 1 ELSE whole)
            : dt \in {fromisoformat(timestamp)}})

\* item["_links"]["self"]
link_self(item) ==
    IF ~Has(item, "_links") THEN Raise("KeyError: _links")
    ELSE IF ~Has(item["_links"], "self") THEN Raise("KeyError: self")
    ELSE Ok(item["_links"]["self"])

\* get_link_timestamp reading the segment before the last
get_link_timestamp_before_last(item) ==
    LET self == link_self(item) IN
    IF ~self.ok THEN self
    ELSE LET parts == split(self.val, "/") IN
         IF Len(parts) < 2 THEN Raise("IndexError") ELSE int(parts[Len(parts) - 1])

\* utils.get_link_timestamp: int(self.split("/")[-1])
get_link_timestamp(item) ==
    LET self == link_self(item) IN
    IF ~self.ok THEN self
    ELSE LET parts == split(self.val, "/") IN
         int(parts[Len(parts)])

\* utils.parse_pmode_item: the last three parts of self.strip("/").split("/")
parse_pmode_item(item) ==
    LET self == link_self(item) IN
    IF ~self.ok THEN self
    ELSE LET parts == split(strip(self.val, {"/"}), "/")
             n == Len(parts)
         IN
         IF n < 3 THEN Raise("IndexError")
         ELSE Ok([machine |-> parts[n - 2], point |-> parts[n - 1], tag |-> parts[n]])

(***************************************************************************)
(* t8.T8: the telemetry client.  A JSON object is a function from its keys *)
(* to its values.                                                          *)
(***************************************************************************)
\* T8.__request: one GET; raise_for_status() turns a 4xx or 5xx status into
\* an exception, a failed connection raises in requests.get.  The bodies of
\* the model are JSON objects, so r.json() returns them.
request(answer) ==
    IF ~answer.reached THEN Raise("requests.ConnectionError")
    ELSE IF answer.status >= 400 THEN Raise("requests.HTTPError")
    ELSE Ok(answer.body)

\* where the appliance, or the mirror in front of it, sends the client on
\* its i-th redirect of url
Location(url, i) == "moved/" \o ToString(i) \o "/" \o url

\* a client that asks once more when the transport failed
requests_get_retrying(url, answer) ==
    [i \in 1..(answer.hops + 1) |-> IF i = 1 THEN url ELSE Location(url, i - 1)]
        \o (IF ~answer.reached \/ answer.status >= 400 THEN <<url>> ELSE <<>>)

\* the GET requests that the one requests.get(url, allow_redirects=True,
\* timeout=5) of T8.__request puts on the wire: the one for url, and one
\* for every redirect it follows before the final answer or the failure
requests_get(url, answer) ==
    [i \in 1..(answer.hops + 1) |-> IF i = 1 THEN url ELSE Location(url, i - 1)]

\* array * factor with a float32 array and a Python number: element-wise,
\* the product rounded to float32.  Exact for integer-valued elements and
\* factors with a product below 2^24, which is what the model exchanges.
ndarray_mul(a, factor) ==
    Array(a.dtype, [i \in 1..Len(a.items) |-> F32OfInt(F32Value(a.items[i]) * factor)])

\* the first key of keys that the object lacks: the KeyError of r[key]
RECURSIVE FirstMissing(_, _)
FirstMissing(r, keys) ==
    IF keys = <<>> THEN ""
    ELSE IF ~Has(r, Head(keys)) THEN Head(keys)
    ELSE FirstMissing(r, Tail(keys))

\* a wave URL that leaves the format to the default of T8.__get_wave
WavePath_private_default(mach, point, pmode, t, array_fmt) ==
    "waves/" \o mach \o "/" \o point \o "/" \o pmode \o "/" \o ToString(t)
        \o "?array_fmt=zlib"

WavePath(mach, point, pmode, t, array_fmt) ==
    "waves/" \o mach \o "/" \o point \o "/" \o pmode \o "/" \o ToString(t)
        \o "?array_fmt=" \o array_fmt

SpectrumPath(mach, point, pmode, t, array_fmt) ==
    "spectra/" \o mach \o "/" \o point \o "/" \o pmode \o "/" \o ToString(t)
        \o "?array_fmt=" \o array_fmt

\* get_wave with a response that must carry "factor"
get_wave_factor_required(resp, mach, point, pmode, t, array_fmt) ==
    IF ~resp.ok THEN resp
    ELSE LET r == resp.val IN
         IF ~Has(r, "factor") THEN Raise("KeyError: factor")
         ELSE IF ~Has(r, "data") THEN Raise("KeyError: data")
         ELSE LET a == decode_array(r.data, array_fmt, "float32")
                  missing == FirstMissing(r, <<"speed", "snap_t", "t", "unit_id", "sample_rate">>)
              IN
              IF ~a.ok THEN a
              ELSE IF missing # "" THEN Raise("KeyError: " \o missing)
              ELSE Ok([path |-> mach \o ":" \o point \o ":" \o pmode,
                       speed |-> r.speed,
                       snap_t |-> r.snap_t,
                       t |-> r.t,
                       unit_id |-> r.unit_id,
                       data |-> ndarray_mul(a.val, r.factor),
                       sample_rate |-> r.sample_rate])

\* T8.get_wave, given the outcome of its GET.  The keyword arguments of
\* Wave(...) are evaluated in order, so the first missing key raises; the
\* field values of the model pass the validation of the pydantic record.
get_wave(resp, mach, point, pmode, t, array_fmt) ==
    IF ~resp.ok THEN resp
    ELSE LET r == resp.val
             factor == IF Has(r, "factor") THEN r.factor ELSE 1
         IN
         IF ~Has(r, "data") THEN Raise("KeyError: data")
         ELSE LET a == decode_array(r.data, array_fmt, "float32")
                  missing == FirstMissing(r, <<"speed", "snap_t", "t", "unit_id", "sample_rate">>)
              IN
              IF ~a.ok THEN a
              ELSE IF missing # "" THEN Raise("KeyError: " \o missing)
              ELSE Ok([path |-> mach \o ":" \o point \o ":" \o pmode,
                       speed |-> r.speed,
                       snap_t |-> r.snap_t,
                       t |-> r.t,
                       unit_id |-> r.unit_id,
                       data |-> ndarray_mul(a.val, factor),
                       sample_rate |-> r.sample_rate])

\* a spectrum that takes the rectangular window when the response names none
get_spectrum_default_window(resp, mach, point, pmode, t, array_fmt) ==
    IF ~resp.ok THEN resp
    ELSE LET r == resp.val
             factor == IF Has(r, "factor") THEN r.factor ELSE 1
         IN
         IF ~Has(r, "data") THEN Raise("KeyError: data")
         ELSE LET a == decode_array(r.data, array_fmt, "float32")
                  missing == FirstMissing(r, <<"speed", "snap_t", "t", "unit_id",
                                               "min_freq", "max_freq">>)
              IN
              IF ~a.ok THEN a
              ELSE IF missing # "" THEN Raise("KeyError: " \o missing)
              ELSE Ok([path |-> mach \o ":" \o point \o ":" \o pmode,
                       speed |-> r.speed,
                       snap_t |-> r.snap_t,
                       t |-> r.t,
                       unit_id |-> r.unit_id,
                       min_freq |-> r.min_freq,
                       max_freq |-> r.max_freq,
                       data |-> ndarray_mul(a.val, factor),
                       window |-> IF Has(r, "window") THEN r.window ELSE 0])

\* T8.get_spectrum, given the outcome of its GET
get_spectrum(resp, mach, point, pmode, t, array_fmt) ==
    IF ~resp.ok THEN resp
    ELSE LET r == resp.val
             factor == IF Has(r, "factor") THEN r.factor ELSE 1
         IN
         IF ~Has(r, "data") THEN Raise("KeyError: data")
         ELSE LET a == decode_array(r.data, array_fmt, "float32")
                  missing == FirstMissing(r, <<"speed", "snap_t", "t", "unit_id",
                                               "min_freq", "max_freq", "window">>)
              IN
              IF ~a.ok THEN a
              ELSE IF missing # "" THEN Raise("KeyError: " \o missing)
              ELSE Ok([path |-> mach \o ":" \o point \o ":" \o pmode,
                       speed |-> r.speed,
                       snap_t |-> r.snap_t,
                       t |-> r.t,
                       unit_id |-> r.unit_id,
                       min_freq |-> r.min_freq,
                       max_freq |-> r.max_freq,
                       data |-> ndarray_mul(a.val, factor),
                       window |-> r.window])

\* the characters of the names the appliance uses, in code point order
CodePoints == " +-./0123456789:ABCDEFGHIJKLMNOPQRSTUVWXYZ_abcdefghijklmnopqrstuvwxyz"

Ord(c) == CHOOSE i \in 1..Len(CodePoints) : CharAt(CodePoints, i) = c

\* a < b for two str: code point by code point, a proper prefix first
RECURSIVE StrLess(_, _)
StrLess(a, b) ==
    IF b = "" THEN FALSE
    ELSE IF a = "" THEN TRUE
    ELSE IF Head(a) = Head(b) THEN StrLess(Tail(a), Tail(b))
    ELSE Ord(Head(a)) < Ord(Head(b))

\* the sort key of list_proc_modes and list_params, and the order of tuples
PmodeKey(x) == <<x.machine, x.point, x.tag>>

RECURSIVE TupleLess(_, _)
TupleLess(a, b) ==
    IF b = <<>> THEN FALSE
    ELSE IF a = <<>> THEN TRUE
    ELSE IF Head(a) = Head(b) THEN TupleLess(Tail(a), Tail(b))
    ELSE StrLess(Head(a), Head(b))

\* sorted(list, key=...): stable, an element goes behind the ones that do
\* not compare greater
RECURSIVE sorted(_)
sorted(list) ==
    IF list = <<>> THEN <<>>
    ELSE LET n == Len(list)
             x == list[n]
             before == sorted(SubSeq(list, 1, n - 1))
             k == Cardinality({i \in 1..(n - 1) :
                                  ~TupleLess(PmodeKey(x), PmodeKey(before[i]))})
         IN SubSeq(before, 1, k) \o <<x>> \o SubSeq(before, k + 1, n - 1)

\* [f(link) for link in items] over the outcomes of f: the first exception
\* ends the comprehension
Comprehension(outcomes) ==
    LET failed == {i \in 1..Len(outcomes) : ~outcomes[i].ok} IN
    IF failed # {}
    THEN outcomes[CHOOSE i \in failed : \A j \in failed : i <= j]
    ELSE Ok([i \in 1..Len(outcomes) |-> outcomes[i].val])

\* links["_items"]
Items(resp) ==
    IF ~resp.ok THEN resp
    ELSE IF ~Has(resp.val, "_items") THEN Raise("KeyError: _items")
    ELSE Ok(resp.val["_items"])

\* the listing as the older copy of the package returns it: in server order
list_proc_modes_unsorted(resp) ==
    LET items == Items(resp) IN
    IF ~items.ok THEN items
    ELSE Comprehension([i \in 1..Len(items.val) |-> parse_pmode_item(items.val[i])])

\* T8.list_proc_modes, on the response to GET waves
list_proc_modes(resp) ==
    LET items == Items(resp) IN
    IF ~items.ok THEN items
    ELSE LET pmodes == Comprehension([i \in 1..Len(items.val) |->
                                          parse_pmode_item(items.val[i])])
         IN IF ~pmodes.ok THEN pmodes ELSE Ok(sorted(pmodes.val))

\* T8.list_params, on the response to GET trends/param
list_params(resp) ==
    LET items == Items(resp) IN
    IF ~items.ok THEN items
    ELSE LET params == Comprehension([i \in 1..Len(items.val) |->
                                          parse_pmode_item(items.val[i])])
         IN IF ~params.ok THEN params ELSE Ok(sorted(params.val))

\* utils.parse_link: the last path segment of the link of a listed item
parse_link(item) ==
    LET self == link_self(item) IN
    IF ~self.ok THEN self
    ELSE LET parts == split(self.val, "/") IN Ok(parts[Len(parts)])

\* int(parse_link(link))
int_parse_link(link) ==
    LET segment == parse_link(link) IN
    IF ~segment.ok THEN segment ELSE int(segment.val)

\* T8.list_configs, on the response to GET confs
list_configs(resp) ==
    LET items == Items(resp) IN
    IF ~items.ok THEN items
    ELSE Comprehension([i \in 1..Len(items.val) |-> parse_link(items.val[i])])

\* T8.list_snapshots, on the response to GET snapshots/{mach}
list_snapshots(resp) ==
    LET items == Items(resp) IN
    IF ~items.ok THEN items
    ELSE Comprehension([i \in 1..Len(items.val) |-> int_parse_link(items.val[i])])

\* a listing that drops the timestamps it has already returned
list_waves_distinct(resp) ==
    LET items == Items(resp) IN
    IF ~items.ok THEN items
    ELSE LET all == Comprehension([i \in 1..Len(items.val) |->
                                       int_parse_link(items.val[i])])
             first == {i \in 1..Len(items.val) :
                          \A j \in 1..(i - 1) : all.val[j] # all.val[i]}
             Nth(k) == CHOOSE i \in first : Cardinality({j \in first : j < i}) = k - 1
         IN IF ~all.ok THEN all
            ELSE Ok([k \in 1..Cardinality(first) |-> all.val[Nth(k)]])

\* T8.list_waves, on the response to GET waves/{mach}/{point}/{pmode}
list_waves(resp) ==
    LET items == Items(resp) IN
    IF ~items.ok THEN items
    ELSE Comprehension([i \in 1..Len(items.val) |-> int_parse_link(items.val[i])])

\* T8.list_spectra, on the response to GET spectra/{mach}/{point}/{pmode}
list_spectra(resp) ==
    LET items == Items(resp) IN
    IF ~items.ok THEN items
    ELSE Comprehension([i \in 1..Len(items.val) |-> int_parse_link(items.val[i])])

\* T8.list_wave_modes, on the response to GET waves
list_wave_modes(resp) ==
    LET items == Items(resp) IN
    IF ~items.ok THEN items
    ELSE Comprehension([i \in 1..Len(items.val) |->
                           IF Has(items.val[i], "name") THEN Ok(items.val[i].name)
                           ELSE Raise("KeyError: name")])

\* T8.get_config, on the response to GET confs/{conf}: the JSON as it is
get_config(resp) == resp

\* T8.get_snapshot, on the response to GET snapshots/{mach}/{t}
get_snapshot(resp) == resp

\* the fields a models.Status must be given
StatusFields ==
    <<"timestamp", "up_time", "idle_time", "host", "hw_addr", "ip_addr", "gateway",
      "prefix_length", "dhcp_enabled", "data_mount", "rw_mount", "board_temp",
      "cpu_temp", "vbat", "vinput", "fan_pwm">>

\* the fields a models.SystemInfo must be given (the optional ones aside)
SystemInfoFields ==
    <<"serial", "full_serial", "model", "variant", "version", "revision",
      "hw_version", "board_model", "board_revision", "cpu_serial", "host",
      "enable_ntp", "installed_time">>

\* Model(**obj) of pydantic: a required field that is absent is a
\* validation error, a key that is no field is ignored
BaseModel(fields, optional, obj) ==
    LET missing == FirstMissing(obj, fields)
        names == {fields[i] : i \in 1..Len(fields)} \cup (optional \cap DOMAIN obj)
    IN IF missing # "" THEN Raise("pydantic.ValidationError: " \o missing)
       ELSE Ok([k \in names |-> obj[k]])

\* T8.get_status, on the response to GET info/status
get_status(resp) ==
    IF ~resp.ok THEN resp ELSE BaseModel(StatusFields, {}, resp.val)

\* T8.get_system_info, on the response to GET info/system
get_system_info(resp) ==
    IF ~resp.ok THEN resp
    ELSE BaseModel(SystemInfoFields, {"exp_module", "exp_serial", "license"}, resp.val)

\* decode_array(data[key], fmt, dtype=...) as an argument of a trend record
decode_field(data, key, fmt, dtype) ==
    IF ~Has(data, key) THEN Raise("KeyError: " \o key)
    ELSE decode_array(data[key], fmt, dtype)

\* T8.get_machine_trend, on the response to GET trends/mach/{mach}
get_machine_trend(resp) ==
    IF ~resp.ok THEN resp
    ELSE LET data == resp.val
             fmt == "zlib"
         IN The({IF ~fields.ok THEN fields
                 ELSE Ok([t |-> fields.val[1], speed |-> fields.val[2],
                          load |-> fields.val[3], alarm |-> fields.val[4],
                          state |-> fields.val[5], strategy |-> fields.val[6]])
                    : fields \in {Comprehension(<<decode_field(data, "t.I", fmt, "uint32"),
                                             decode_field(data, "speed.f", fmt, "float32"),
                                             decode_field(data, "load.f", fmt, "float32"),
                                             decode_field(data, "alarm.B", fmt, "uint8"),
                                             decode_field(data, "state.B", fmt, "uint8"),
                                             decode_field(data, "strategy.B", fmt, "uint8")>>)}})

\* a point trend that stands in an empty array for a field it cannot get
get_point_trend_lenient(resp) ==
    IF ~resp.ok THEN resp
    ELSE LET data == resp.val
             fmt == "zlib"
             t == decode_field(data, "t.I", fmt, "uint32")
             alarm == decode_field(data, "alarm.B", fmt, "uint8")
             bias == decode_field(data, "bias.f", fmt, "float32")
         IN Ok([t |-> IF t.ok THEN t.val ELSE Array("uint32", <<>>),
                alarm |-> IF alarm.ok THEN alarm.val ELSE Array("uint8", <<>>),
                bias |-> IF bias.ok THEN bias.val ELSE Array("float32", <<>>)])

\* T8.get_point_trend, on the response to GET trends/point/{mach}/{point}
get_point_trend(resp) ==
    IF ~resp.ok THEN resp
    ELSE LET data == resp.val
             fmt == "zlib"
         IN The({IF ~fields.ok THEN fields
                 ELSE Ok([t |-> fields.val[1], alarm |-> fields.val[2],
                          bias |-> fields.val[3]])
                    : fields \in {Comprehension(<<decode_field(data, "t.I", fmt, "uint32"),
                                             decode_field(data, "alarm.B", fmt, "uint8"),
                                             decode_field(data, "bias.f", fmt, "float32")>>)}})

\* T8.get_proc_mode_trend, on the response to GET trends/pmode/...
get_proc_mode_trend(resp) ==
    IF ~resp.ok THEN resp
    ELSE LET data == resp.val
             fmt == "zlib"
         IN The({IF ~fields.ok THEN fields
                 ELSE Ok([t |-> fields.val[1], alarm |-> fields.val[2],
                          mask |-> fields.val[3]])
                    : fields \in {Comprehension(<<decode_field(data, "t.I", fmt, "uint32"),
                                             decode_field(data, "alarm.B", fmt, "uint8"),
                                             decode_field(data, "mask.B", fmt, "uint8")>>)}})

\* a parameter trend that decodes the units with decode_array's default type
get_param_trend_default_dtype(resp) ==
    IF ~resp.ok THEN resp
    ELSE LET data == resp.val
             fmt == "zlib"
         IN The({IF ~fields.ok THEN fields
                 ELSE Ok([t |-> fields.val[1], value |-> fields.val[2],
                          alarm |-> fields.val[3], unit |-> fields.val[4]])
                    : fields \in {Comprehension(<<decode_field(data, "t.I", fmt, "uint32"),
                                             decode_field(data, "value.f", fmt, "float32"),
                                             decode_field(data, "alarm.B", fmt, "uint8"),
                                             decode_field(data, "unit.H", fmt, "float32")>>)}})

\* T8.get_param_trend, on the response to GET trends/param/...
get_param_trend(resp) ==
    IF ~resp.ok THEN resp
    ELSE LET data == resp.val
             fmt == "zlib"
         IN The({IF ~fields.ok THEN fields
                 ELSE Ok([t |-> fields.val[1], value |-> fields.val[2],
                          alarm |-> fields.val[3], unit |-> fields.val[4]])
                    : fields \in {Comprehension(<<decode_field(data, "t.I", fmt, "uint32"),
                                             decode_field(data, "value.f", fmt, "float32"),
                                             decode_field(data, "alarm.B", fmt, "uint8"),
                                             decode_field(data, "unit.H", fmt, "uint16")>>)}})

(***************************************************************************)
(* tools/t8_cli.py: the command-line tool.  A command is a function that   *)
(* ends in one of three ways: it returns (exit status 0), it calls         *)
(* sys.exit(1) after a message on standard error (SystemExit), or an       *)
(* exception that nothing catches leaves it (the interpreter prints the    *)
(* traceback).  The outcome of a command is a record of how it ended, the  *)
(* messages it wrote with click.secho(..., err=True), the files it wrote   *)
(* and the GETs of its client calls.  What it prints on standard output is *)
(* presentation and is not kept; the print_* functions are modelled by the *)
(* exceptions they can raise.  "{e!s}" is written as the model's name of   *)
(* the exception.                                                          *)
(***************************************************************************)
Outcome(ret_, errs_, files_, reqs_) ==
    [ret |-> ret_, errs |-> errs_, files |-> files_, reqs |-> reqs_]

\* click.secho(message, fg="red", err=True) and sys.exit(1)
Fail(message, reqs_) == Outcome(Raise("SystemExit: 1"), <<message>>, <<>>, reqs_)

\* an exception outside every try block of the command
Uncaught(raised, reqs_) == Outcome(raised, <<>>, <<>>, reqs_)

\* @click.option(..., default=...): the text given on the command line, or
\* the default of the option
click_option(opt, default) == IF opt.given THEN opt.text ELSE default

\* the default of --time in snapshot get, wave get and spectrum get
DefaultTime == "1970-01-01T00:00:00Z"

\* the array_fmt of T8.get_wave and T8.get_spectrum when the caller names
\* none, as the commands do
DefaultArrayFmt == "zint"

\* a handler that catches OSError where the command catches ValueError
IsOSError(outcome) == ~outcome.ok /\ SubSeq(outcome.err, 1, 8) = "OSError:"

\* except ValueError: the exceptions of the model that are a ValueError
IsValueError(outcome) == ~outcome.ok /\ SubSeq(outcome.err, 1, 11) = "ValueError:"

\* the end of a command that saves out_file: open(out_file, "w") or
\* np.savetxt(out_file, ...) raises OSError when the file cannot be written
save(out_file, content, disk, reqs_) ==
    IF disk # "writable" THEN Fail("Error saving file: OSError", reqs_)
    ELSE Outcome(Ok(<<>>), <<>>, <<[name |-> out_file, content |-> content]>>, reqs_)

\* np.vstack(arrays).T: one row per element; arrays of different lengths
\* cannot be stacked
vstack(arrays) ==
    IF \E i \in 1..Len(arrays) : Len(arrays[i]) # Len(arrays[1])
    THEN Raise("ValueError: all the input array dimensions must match")
    ELSE Ok([r \in 1..Len(arrays[1]) |-> [c \in 1..Len(arrays) |-> arrays[c][r]]])

\* np.linspace(start, stop, num, endpoint): num points, the i-th of them
\* start + k * (stop - start) / div with k = i - 1, kept as its terms
linspace(start, stop, num, endpoint) ==
    LET div == IF endpoint THEN num - 1 ELSE num IN
    [i \in 1..num |-> [start |-> start, stop |-> stop, k |-> i - 1, div |-> div]]

\* print_wave: the duration is the first thing it computes
print_wave(wave) ==
    IF wave.sample_rate = 0 THEN Raise("ZeroDivisionError: float division by zero")
    ELSE Ok(<<>>)

\* print_snapshot: snap['tag'], snap['t'], snap['conf_id'], snap['speed'],
\* snap['state_id'] in this order
print_snapshot(snap) ==
    LET missing == FirstMissing(snap, <<"tag", "t", "conf_id", "speed", "state_id">>) IN
    IF missing # "" THEN Raise("KeyError: " \o missing) ELSE Ok(<<>>)

\* print_license: lic.changed_at is the first attribute it reads
print_license(lic, serial) ==
    IF lic = [null |-> TRUE]
    THEN Raise("AttributeError: 'NoneType' object has no attribute 'changed_at'")
    ELSE Ok(<<>>)

\* a command that retrieves and prints: the client call in a try block
\* whose handler writes "<message>: <exception>" and exits
retrieve(url, got, message, answer) ==
    IF ~got.ok THEN Fail(message \o ": " \o got.err, requests_get(url, answer))
    ELSE Outcome(Ok(<<>>), <<>>, <<>>, requests_get(url, answer))

\* t8 info
info(answer) ==
    The({retrieve("info/system", got, "Error retrieving info", answer)
            : got \in {get_system_info(request(answer))}})

\* t8 license
license(answer) ==
    The({IF ~got.ok THEN retrieve("info/system", got, "Error retrieving info", answer)
         ELSE LET shown == print_license(got.val.license, got.val.full_serial) IN
              IF ~shown.ok THEN Uncaught(shown, requests_get("info/system", answer))
              ELSE retrieve("info/system", got, "Error retrieving info", answer)
            : got \in {get_system_info(request(answer))}})

\* t8 status
status(answer) ==
    The({retrieve("info/status", got, "Error retrieving status", answer)
            : got \in {get_status(request(answer))}})

\* t8 config list
list_configs_cmd(answer) ==
    The({retrieve("confs", configs, "Error listing configurations", answer)
            : configs \in {list_configs(request(answer))}})

\* t8 config get [--id ID]: the system info, then the configuration, in one
\* try block; the file is named from the serial and config['uid']
get_config_cmd(id, about, answer, disk) ==
    The({IF ~got.ok THEN Fail(got.err, requests_get("info/system", about))
         ELSE LET sent == requests_get("info/system", about)
                              \o requests_get("confs/" \o id, answer)
                  config == get_config(request(answer))
              IN
              IF ~config.ok THEN Fail(config.err, sent)
              ELSE IF ~Has(config.val, "uid") THEN Uncaught(Raise("KeyError: uid"), sent)
              ELSE save("conf_" \o got.val.full_serial \o "_" \o config.val.uid \o ".json",
                        config.val, disk, sent)
            : got \in {get_system_info(request(about))}})

\* t8 config proc-modes
proc_modes(answer) ==
    The({retrieve("waves", pmodes, "Error retrieving processing modes", answer)
            : pmodes \in {list_proc_modes(request(answer))}})

\* t8 config params
params(answer) ==
    The({retrieve("trends/param", listed, "Error retrieving parameters", answer)
            : listed \in {list_params(request(answer))}})

\* t8 snapshot list --machine M
list_snapshots_cmd(machine, answer) ==
    The({retrieve("snapshots/" \o machine, timestamps, "Error listing snapshots", answer)
            : timestamps \in {list_snapshots(request(answer))}})

\* a snapshot get that names its file from the time it asked for
get_snapshot_cmd_named_by_request(machine, time, local, answer, disk) ==
    The({IF IsValueError(t) THEN Fail("Invalid timestamp format: " \o time, <<>>)
         ELSE IF ~t.ok THEN Uncaught(t, <<>>)
         ELSE LET sent == requests_get("snapshots/" \o machine \o "/" \o ToString(t.val),
                                       answer)
                  snap == get_snapshot(request(answer))
              IN
              IF ~snap.ok THEN Fail("Error retrieving snapshot: " \o snap.err, sent)
              ELSE LET shown == print_snapshot(snap.val) IN
                   IF ~shown.ok THEN Uncaught(shown, sent)
                   ELSE save("ss_" \o machine \o "_" \o ToString(t.val) \o ".json",
                             snap.val, disk, sent)
            : t \in {parse_timestamp(time, local)}})

\* t8 snapshot get --machine M [--time T], run where the local time is
\* local minutes ahead of UTC
get_snapshot_cmd(machine, time, local, answer, disk) ==
    The({IF IsValueError(t) THEN Fail("Invalid timestamp format: " \o time, <<>>)
         ELSE IF ~t.ok THEN Uncaught(t, <<>>)
         ELSE LET sent == requests_get("snapshots/" \o machine \o "/" \o ToString(t.val),
                                       answer)
                  snap == get_snapshot(request(answer))
              IN
              IF ~snap.ok THEN Fail("Error retrieving snapshot: " \o snap.err, sent)
              ELSE LET shown == print_snapshot(snap.val) IN
                   IF ~shown.ok THEN Uncaught(shown, sent)
                   ELSE save("ss_" \o machine \o "_" \o ToString(snap.val.t) \o ".json",
                             snap.val, disk, sent)
            : t \in {parse_timestamp(time, local)}})

\* t8 wave list --machine M --point p --pmode m
list_waves_cmd(machine, point, pmode, answer) ==
    The({retrieve("waves/" \o machine \o "/" \o point \o "/" \o pmode, timestamps,
                  "Error listing waves", answer)
            : timestamps \in {list_waves(request(answer))}})

\* wave get, once the time is parsed and the client call has returned
save_wave(machine, point, pmode, wave, disk, sent) ==
    IF ~wave.ok THEN Fail("Error retrieving wave: " \o wave.err, sent)
    ELSE LET shown == print_wave(wave.val)
             n == Len(wave.val.data.items)
             times == linspace(0, [num |-> n, den |-> wave.val.sample_rate], n, FALSE)
             data == vstack(<<times, wave.val.data.items>>)
         IN
         IF ~shown.ok THEN Uncaught(shown, sent)
         ELSE save("wf_" \o machine \o "_" \o point \o "_" \o pmode \o "_"
                       \o ToString(wave.val.snap_t) \o ".csv",
                   [header |-> "Time,Value", rows |-> data.val], disk, sent)

\* t8 wave get --machine M --point p --pmode m [--time T]
get_wave_cmd(machine, point, pmode, time, local, answer, disk) ==
    The({IF IsValueError(t) THEN Fail("Invalid timestamp format: " \o time, <<>>)
         ELSE IF ~t.ok THEN Uncaught(t, <<>>)
         ELSE The({save_wave(machine, point, pmode, wave, disk,
                             requests_get(WavePath(machine, point, pmode, t.val,
                                                   DefaultArrayFmt), answer))
                     : wave \in {get_wave(request(answer), machine, point, pmode,
                                          t.val, DefaultArrayFmt)}})
            : t \in {parse_timestamp(time, local)}})

\* t8 spectrum list --machine M --point p --pmode m
list_spectra_cmd(machine, point, pmode, answer) ==
    The({retrieve("spectra/" \o machine \o "/" \o point \o "/" \o pmode, timestamps,
                  "Error listing spectra", answer)
            : timestamps \in {list_spectra(request(answer))}})

\* spectrum get, once the time is parsed and the client call has returned
save_spectrum(machine, point, pmode, sp, disk, sent) ==
    IF ~sp.ok THEN Fail("Error retrieving spectrum: " \o sp.err, sent)
    ELSE LET n == Len(sp.val.data.items)
             freqs == linspace(sp.val.min_freq, sp.val.max_freq, n, TRUE)
             data == vstack(<<freqs, sp.val.data.items>>)
         IN
         save("sp_" \o machine \o "_" \o point \o "_" \o pmode \o "_"
                  \o ToString(sp.val.snap_t) \o ".csv",
              [header |-> "Frequency,RMS", rows |-> data.val], disk, sent)

\* t8 spectrum get --machine M --point p --pmode m [--time T]
get_spectrum_cmd(machine, point, pmode, time, local, answer, disk) ==
    The({IF IsValueError(t) THEN Fail("Invalid timestamp format: " \o time, <<>>)
         ELSE IF ~t.ok THEN Uncaught(t, <<>>)
         ELSE The({save_spectrum(machine, point, pmode, sp, disk,
                                 requests_get(SpectrumPath(machine, point, pmode, t.val,
                                                           DefaultArrayFmt), answer))
                     : sp \in {get_spectrum(request(answer), machine, point, pmode,
                                            t.val, DefaultArrayFmt)}})
            : t \in {parse_timestamp(time, local)}})

\* the end of a trend command: the arrays stacked as columns, then saved
save_trend(out_file, header, arrays, disk, sent) ==
    The({IF ~data.ok THEN Uncaught(data, sent)
         ELSE save(out_file, [header |-> header, rows |-> data.val], disk, sent)
            : data \in {vstack(arrays)}})

\* a trend machine that opens its output file before it asks the appliance
machine_trend_cmd_file_first(machine, answer, disk) ==
    The({LET sent == requests_get("trends/mach/" \o machine \o "?array_fmt=zlib", answer)
             opened == IF disk = "writable"
                       THEN <<[name |-> "trend_mach_" \o machine \o ".csv",
                               content |-> <<>>]>>
                       ELSE <<>>
         IN
         IF ~trend.ok
         THEN Outcome(Raise("SystemExit: 1"),
                      <<"Error retrieving machine trend: " \o trend.err>>, opened, sent)
         ELSE save_trend("trend_mach_" \o machine \o ".csv",
                         "Timestamp,Speed,Load,State,Alarm,Strategy",
                         <<trend.val.t.items, trend.val.speed.items, trend.val.load.items,
                           trend.val.state.items, trend.val.alarm.items,
                           trend.val.strategy.items>>, disk, sent)
            : trend \in {get_machine_trend(request(answer))}})

\* t8 trend machine --machine M
machine_trend_cmd(machine, answer, disk) ==
    The({LET sent == requests_get("trends/mach/" \o machine \o "?array_fmt=zlib", answer)
         IN
         IF ~trend.ok THEN Fail("Error retrieving machine trend: " \o trend.err, sent)
         ELSE save_trend("trend_mach_" \o machine \o ".csv",
                         "Timestamp,Speed,Load,State,Alarm,Strategy",
                         <<trend.val.t.items, trend.val.speed.items, trend.val.load.items,
                           trend.val.state.items, trend.val.alarm.items,
                           trend.val.strategy.items>>, disk, sent)
            : trend \in {get_machine_trend(request(answer))}})

\* t8 trend point --machine M --point p
point_trend_cmd(machine, point, answer, disk) ==
    The({LET sent == requests_get("trends/point/" \o machine \o "/" \o point
                                      \o "?array_fmt=zlib", answer)
         IN
         IF ~trend.ok THEN Fail("Error retrieving point trend: " \o trend.err, sent)
         ELSE save_trend("trend_point_" \o machine \o "_" \o point \o ".csv",
                         "Timestamp,Alarm,Bias",
                         <<trend.val.t.items, trend.val.alarm.items, trend.val.bias.items>>,
                         disk, sent)
            : trend \in {get_point_trend(request(answer))}})

\* t8 trend pmode --machine M --point p --pmode m
proc_mode_trend_cmd(machine, point, pmode, answer, disk) ==
    The({LET sent == requests_get("trends/pmode/" \o machine \o "/" \o point \o "/"
                                      \o pmode \o "?array_fmt=zlib", answer)
         IN
         IF ~trend.ok
         THEN Fail("Error retrieving processing mode trend: " \o trend.err, sent)
         ELSE save_trend("trend_pmode_" \o machine \o "_" \o point \o "_" \o pmode
                             \o ".csv",
                         "Timestamp,Alarm,Mask",
                         <<trend.val.t.items, trend.val.alarm.items, trend.val.mask.items>>,
                         disk, sent)
            : trend \in {get_proc_mode_trend(request(answer))}})

\* t8 trend param --machine M --point p --param P
param_trend_cmd(machine, point, param, answer, disk) ==
    The({LET sent == requests_get("trends/param/" \o machine \o "/" \o point \o "/"
                                      \o param \o "?array_fmt=zlib", answer)
         IN
         IF ~trend.ok THEN Fail("Error retrieving parameter trend: " \o trend.err, sent)
         ELSE save_trend("trend_param_" \o machine \o "_" \o point \o "_" \o param
                             \o ".csv",
                         "Timestamp,Value,Alarm,Unit",
                         <<trend.val.t.items, trend.val.value.items,
                           trend.val.alarm.items, trend.val.unit.items>>, disk, sent)
            : trend \in {get_param_trend(request(answer))}})

(***************************************************************************)
(* The appliance's side of the wire: how a byte buffer becomes the text of *)
(* a response field.  These build the inputs of the model.                 *)
(***************************************************************************)
B64Char(v) == CharAt(B64Chars, v + 1)

RECURSIVE b64encode(_)
b64encode(b) ==
    IF Len(b) = 0 THEN ""
    ELSE IF Len(b) = 1
    THEN B64Char(b[1] \div 4) \o B64Char((b[1] % 4) * 16) \o "=="
    ELSE IF Len(b) = 2
    THEN B64Char(b[1] \div 4) \o B64Char((b[1] % 4) * 16 + b[2] \div 16)
         \o B64Char((b[2] % 16) * 4) \o "="
    ELSE B64Char(b[1] \div 4) \o B64Char((b[1] % 4) * 16 + b[2] \div 16)
         \o B64Char((b[2] % 16) * 4 + b[3] \div 64) \o B64Char(b[3] % 64)
         \o b64encode(SubSeq(b, 4, Len(b)))

\* one stored deflate block
StoredBlock(bfinal, b) ==
    <<bfinal, Len(b) % 256, Len(b) \div 256,
      255 - (Len(b) % 256), 255 - (Len(b) \div 256)>> \o b

ZlibHeader == <<120, 156>>

\* the framings a payload buffer arrives in: the two stored-block layouts of
\* a sound zlib stream, a sound stream followed by stray bytes, streams
\* damaged in the header, the block type, the block length, the checksum or
\* by truncation, and no zlib framing at all
Framings ==
    {"stored", "flushed", "trailing", "header", "blocktype", "length",
     "checksum", "truncated", "plain"}

SoundFramings == {"stored", "flushed", "trailing"}

Frame(b, framing) ==
    LET sound == ZlibHeader \o StoredBlock(1, b) \o adler32(b)
        sum == adler32(b)
    IN
    CASE framing = "stored" -> sound
      [] framing = "flushed" ->
           ZlibHeader \o StoredBlock(0, b) \o StoredBlock(1, <<>>) \o sum
      [] framing = "trailing" -> sound \o <<0, 0>>
      [] framing = "header" -> <<120, 157>> \o StoredBlock(1, b) \o sum
      [] framing = "blocktype" -> ZlibHeader \o <<7>> \o Tail(StoredBlock(1, b)) \o sum
      [] framing = "length" ->
           ZlibHeader \o <<1, Len(b) % 256, 0, 0, 0>> \o b \o sum
      [] framing = "checksum" ->
           ZlibHeader \o StoredBlock(1, b)
               \o <<sum[1], sum[2], sum[3], (sum[4] + 1) % 256>>
      [] framing = "truncated" -> SubSeq(sound, 1, Len(sound) - 1)
      [] framing = "plain" -> b

\* what may happen to the text on its way: nothing, a character outside the
\* base64 alphabet in the middle, a line break at the end, a lost last
\* character, a stray character of the alphabet at the end
Manglings == {"none", "foreign", "newline", "cut", "extra"}

Mangle(t, m) ==
    CASE m = "none" -> t
      [] m = "foreign" ->
           SubSeq(t, 1, Len(t) \div 2) \o "!" \o SubSeq(t, Len(t) \div 2 + 1, Len(t))
      [] m = "newline" -> t \o "\n"
      [] m = "cut" -> SubSeq(t, 1, Len(t) - 1)
      [] m = "extra" -> t \o "A"

RECURSIVE ChunkSeqs(_)
ChunkSeqs(n) ==
    IF n = 0 THEN {<<>>}
    ELSE LET shorter == ChunkSeqs(n - 1) IN
         shorter \cup {b \o c : b \in shorter, c \in Chunks}

Payloads == ChunkSeqs(MaxChunks)

\* the text is mangled only on top of a sound stream or of a plain buffer
Wirings ==
    {<<f, "none">> : f \in Framings}
        \cup {<<f, m>> : f \in {"stored", "plain"}, m \in Manglings}

Formats == {"zint", "zlib", "b64", "hex"}

(***************************************************************************)
(* The appliance's answers to a wave or a spectrum request.                *)
(***************************************************************************)
SampleVals == {1, -3}

RECURSIVE SampleSeqs(_)
SampleSeqs(n) ==
    IF n = 0 THEN {<<>>}
    ELSE LET shorter == SampleSeqs(n - 1) IN
         shorter \cup {Append(x, v) : x \in {y \in shorter : Len(y) = n - 1}, v \in SampleVals}

SampleLists == SampleSeqs(MaxSamples)

\* the factors a response carries; 0 stands for a response without "factor"
FactorOpts == {0, 2, -3}

Int16Bytes(v) ==
    LET u == IF v < 0 THEN v + 65536 ELSE v IN <<u % 256, u \div 256>>

RECURSIVE PackSamples(_, _)
PackSamples(samples, fmt) ==
    IF samples = <<>> THEN <<>>
    ELSE (IF fmt = "zint" THEN Int16Bytes(Head(samples)) ELSE F32OfInt(Head(samples)))
             \o PackSamples(Tail(samples), fmt)

\* the "data" field for the array_fmt the request named: int16 in a zlib
\* stream for "zint", float32 in a zlib stream for "zlib", bare float32
\* otherwise; wire is "sound", or names the framing or mangling that hit it
EncodeSamples(samples, fmt, wire) ==
    LET framing == IF wire \in Framings THEN wire
                   ELSE IF fmt \in {"zint", "zlib"} THEN "flushed" ELSE "plain"
        mangling == IF wire \in Manglings THEN wire ELSE "none"
    IN Mangle(b64encode(Frame(PackSamples(samples, fmt), framing)), mangling)

Wires == {"sound", "checksum", "cut"}

WaveKeys == {"data", "speed", "snap_t", "t", "unit_id", "sample_rate"}
SpectrumKeys == {"data", "speed", "snap_t", "t", "unit_id", "min_freq", "max_freq", "window"}

FieldValue(k, data, factor) ==
    CASE k = "data" -> data
      [] k = "factor" -> factor
      [] k = "speed" -> 25
      [] k = "snap_t" -> 1554907724
      [] k = "t" -> 1554907724
      [] k = "unit_id" -> 3
      [] k = "sample_rate" -> 2560
      [] k = "min_freq" -> 0
      [] k = "max_freq" -> 1000
      [] k = "window" -> 1

\* a response body: the keys of its kind but the one left out, and "factor"
\* unless factor is 0
Body(keys, leftOut, data, factor) ==
    [k \in (keys \ {leftOut}) \cup (IF factor = 0 THEN {} ELSE {"factor"})
        |-> FieldValue(k, data, factor)]

\* the status of the final response; 0 when the connection failed and there
\* is none.  300 stands for the redirection statuses that requests does not
\* follow (no Location to go to), 404 and 503 for the client and server
\* errors.
Statuses == {0, 200, 300, 404, 503}

\* how the request went: the redirects followed, then the final status
Transports ==
    {[reached |-> s # 0, status |-> s, hops |-> h] : s \in Statuses, h \in 0..MaxRedirects}

Direct == [reached |-> TRUE, status |-> 200, hops |-> 0]

\* the answer of the appliance: a response carries the body whatever its
\* status, a failed connection carries nothing
Answer(transport, body) ==
    [reached |-> transport.reached, status |-> transport.status,
     hops |-> transport.hops, body |-> IF transport.reached THEN body ELSE <<>>]

\* Every body is explored over a direct answer; the other transports are
\* explored with the sound and complete bodies.
Explored(transport, sound) == transport = Direct \/ sound

Machines == {"LP_Turbine"}
Points == {"MAD32CY005"}
PModes == {"AM2"}
Times == {0, 1554907724}

(***************************************************************************)
(* The lists and links the utilities are handed.                           *)
(***************************************************************************)
StampVals == {0, -1, 1633024800, 1633111200}

RECURSIVE StampSeqs(_)
StampSeqs(n) ==
    IF n = 0 THEN {<<>>}
    ELSE LET shorter == StampSeqs(n - 1) IN
         shorter \cup {Append(x, v) : x \in {y \in shorter : Len(y) = n - 1}, v \in StampVals}

StampLists == StampSeqs(MaxStamps)

\* where a link starts: its scheme and host, and the path segments a
\* listing puts ahead of the ones it enumerates
Bases ==
    {[scheme |-> "", host |-> "", path |-> <<>>],
     [scheme |-> "http:", host |-> "host", path |-> <<>>],
     [scheme |-> "http:", host |-> "lzfs45.mirror.twave.io",
      path |-> <<"lzfs45", "rest", "waves">>]}

SegVals == {"", "LP_Turbine", "MAD32CY005", "AM2"}

RECURSIVE SegSeqs(_)
SegSeqs(n) ==
    IF n = 0 THEN {<<>>}
    ELSE LET shorter == SegSeqs(n - 1) IN
         shorter \cup {Append(x, v) : x \in {y \in shorter : Len(y) = n - 1}, v \in SegVals}

SegLists == SegSeqs(MaxSegs)

RECURSIVE JoinPath(_)
JoinPath(segs) ==
    IF segs = <<>> THEN "" ELSE "/" \o Head(segs) \o JoinPath(Tail(segs))

Url(base, segs, trailing) ==
    (IF base.scheme = "" THEN "" ELSE base.scheme \o "//" \o base.host)
        \o JoinPath(base.path \o segs) \o trailing

Link(url) == [k \in {"_links"} |-> [j \in {"self"} |-> url]]

\* the listings a timestamp link comes from
StampBases ==
    {<<"lzfs45", "rest", "waves", "LP_Turbine", "MAD32CY005", "AM2">>,
     <<"lzfs45", "rest", "snapshots", "LP_Turbine">>,
     <<>>}

\* last segments: timestamps, and what else a segment may hold
StampSegs ==
    {"1554907724", "1554892596", "0", "007",
     "", "abc", "12a", "1_000", " 12", "12\n", "+5", "-5", "_1", "1__0"}

(***************************************************************************)
(* The listings of the appliance.                                          *)
(***************************************************************************)
\* the machine, point and tag a listed link ends with
PmodeTriples ==
    {<<"LP_Turbine", "MAD32CY005", "AM2">>, <<"LP_Turbine", "MAD32CY005", "AM1">>,
     <<"LP_Turbine", "MAD31CY005", "SP1">>, <<"HP_Turbine", "MAD32CY005", "AM2">>,
     <<"LP", "MAD32CY005", "am2">>}

\* the links of a listing of processing modes or parameters under root, and
\* one that is too short to hold a machine and a point
PmodeLinks(root) ==
    {Link("http://lzfs45.mirror.twave.io/lzfs45/rest/" \o root \o JoinPath(t) \o "/")
        : t \in PmodeTriples} \cup {Link("AM2")}

\* the links of a listing of captures under root: two timestamps, the later
\* one first as the appliance may list them, the timestamp 0, and a link
\* that does not end with a timestamp
StampLinks(root) ==
    {Link("http://lzfs45.mirror.twave.io/lzfs45/rest/" \o root \o "/" \o seg)
        : seg \in {"1554907724", "1554892596", "0", "abc"}}

\* the links of the listing of configurations
ConfLinks ==
    {Link("http://lzfs45.mirror.twave.io/lzfs45/rest/confs/" \o seg)
        : seg \in {"0", "1554907724", "default"}}

RECURSIVE ListsOf(_, _)
ListsOf(elems, n) ==
    IF n = 0 THEN {<<>>}
    ELSE LET shorter == ListsOf(elems, n - 1) IN
         shorter \cup {Append(x, v) : x \in {y \in shorter : Len(y) = n - 1}, v \in elems}

\* the body of a listing; without its "_items" when the list is withheld
Listing(items, withheld) ==
    IF withheld THEN [k \in {"_links"} |-> <<>>] ELSE [k \in {"_items"} |-> items]

\* the items of the listing of wave modes; a link has no name
WaveModeItems == {[name |-> "AM1"], [name |-> "AM2"], Link("AM2")}

\* a configuration or a snapshot of the appliance
Documents == {[uid |-> "default", machines |-> <<"LP_Turbine">>], [uid |-> "empty"]}

Confs == {"0", "default"}

\* what the appliance reports for a field of its status or system info
InfoValue(k) ==
    CASE k \in {"data_mount", "rw_mount"} ->
           [device |-> "/dev/sda1", path |-> "/data", total |-> 2, used |-> 1,
            volatile |-> FALSE]
      [] k \in {"dhcp_enabled", "enable_ntp"} -> TRUE
      [] k \in {"host", "hw_addr", "ip_addr", "gateway", "full_serial", "model",
                "variant", "version", "revision", "board_model", "exp_module",
                "exp_serial", "debug"} -> k
      [] OTHER -> 1

\* the body of info/status or info/system: the fields but the one left out,
\* and a key that the record has no field for
Info(fields, leftOut) ==
    [k \in ({fields[i] : i \in 1..Len(fields)} \ {leftOut}) \cup {"debug"}
        |-> InfoValue(k)]

(***************************************************************************)
(* The trends of the appliance: one field "<name>.<type code>" per array.  *)
(***************************************************************************)
MachineTrendKeys == {"t.I", "speed.f", "load.f", "alarm.B", "state.B", "strategy.B"}
PointTrendKeys == {"t.I", "alarm.B", "bias.f"}
ProcModeTrendKeys == {"t.I", "alarm.B", "mask.B"}
ParamTrendKeys == {"t.I", "value.f", "alarm.B", "unit.H"}

Params == {"Overall"}

\* the type code of a field
CodeOf(key) == split(key, ".")[2]

\* the bytes of the i-th element of a field: the number i in the type of
\* the code, little-endian
ElementBytes(code, i) ==
    CASE code = "I" -> <<i, 0, 0, 0>>
      [] code = "H" -> <<i, 0>>
      [] code = "B" -> <<i>>
      [] code = "f" -> F32OfInt(i)

RECURSIVE FieldBytes(_, _)
FieldBytes(code, n) ==
    IF n = 0 THEN <<>> ELSE FieldBytes(code, n - 1) \o ElementBytes(code, n)

\* what may be wrong with one field of a trend: it is absent, its stream
\* fails its checksum, it has no zlib framing, it holds one element more
\* than the others, it holds a stray byte after its elements
Defects == {"missing", "checksum", "plain", "longer", "stray"}

\* the bytes a field inflates to
TrendBytes(key, n, defect) ==
    CASE defect = "longer" -> FieldBytes(CodeOf(key), n + 1)
      [] defect = "stray" -> FieldBytes(CodeOf(key), n) \o <<7>>
      [] OTHER -> FieldBytes(CodeOf(key), n)

TrendField(key, n, defect) ==
    b64encode(Frame(TrendBytes(key, n, defect),
                    IF defect \in {"checksum", "plain"} THEN defect ELSE "flushed"))

\* the body of a trend of n elements; the field hit suffers the defect
TrendBody(keys, n, hit, defect) ==
    [k \in keys \ (IF defect = "missing" THEN {hit} ELSE {})
        |-> TrendField(k, n, IF k = hit THEN defect ELSE "none")]

(***************************************************************************)
(* The ISO-8601 texts handed to parse_timestamp: what each part reads, and *)
(* what it means.                                                          *)
(***************************************************************************)
IsoDates ==
    {[text |-> "1970-01-01", days |-> 0], [text |-> "1969-12-31", days |-> -1],
     [text |-> "2021-09-30", days |-> 18900], [text |-> "2024-02-29", days |-> 19782]}

IsoClocks ==
    {[text |-> "00:00:00", secs |-> 0], [text |-> "23:59:59", secs |-> 86399],
     [text |-> "20:00:00", secs |-> 72000], [text |-> "18:30", secs |-> 66600]}

IsoFractions ==
    {[text |-> "", micro |-> 0], [text |-> ".5", micro |-> 500000],
     [text |-> ".000001", micro |-> 1], [text |-> ",250", micro |-> 250000]}

\* the offsets a text may end with; "local" when it ends with none
IsoZones ==
    {[text |-> "", aware |-> FALSE, minutes |-> 0],
     [text |-> "Z", aware |-> TRUE, minutes |-> 0],
     [text |-> "+02:00", aware |-> TRUE, minutes |-> 120],
     [text |-> "-05:00", aware |-> TRUE, minutes |-> -300]}

\* texts that are no timestamp
MalformedTexts ==
    {"", "yesterday", "2021-02-30T00:00:00Z", "2021-09-30T24:00:00",
     "2021-09-30T", "2021-9-30T00:00:00", "2021-09-30T20:00:00+2", "2021-09-30T20:00:00Zulu",
     "2021-09-30T20:60:00Z", "2021-09-30T20:00:00+25:00"}

\* the offset of the time zone the process runs in, in minutes
LocalOffsets == {0, 120, -300}

(***************************************************************************)
(* The command lines of the tool, and where it runs.                       *)
(***************************************************************************)
\* --time: not given, an instant with or without offset, or no timestamp
NoTime == [given |-> FALSE, text |-> ""]

WellFormedTimes == {"1970-01-01T00:00:00Z", "2019-04-10T14:48:44Z", "2019-04-10T14:48:44"}

TimeOptions ==
    {NoTime} \cup {[given |-> TRUE, text |-> x] : x \in WellFormedTimes \cup MalformedTexts}

\* the command lines every answer is explored with
PlainTimes == {NoTime, [given |-> TRUE, text |-> "2019-04-10T14:48:44Z"]}

\* whether the working directory takes the output file
Disks == {"writable", "read-only"}

\* the samples of the waves and spectra the tool is answered with
Recordings == {<<>>, <<1, -3>>}

\* the sample rates an appliance may report
SampleRates == {2560, 0, -1}

\* the body with another value for a field it carries
Reported(body, field, value) ==
    [k \in DOMAIN body |-> IF k = field THEN value ELSE body[k]]

\* the snapshot a wave or a spectrum of the tool belongs to
SnapT == 1554907700

\* a snapshot of a machine, as the appliance serves it
SnapshotKeys == {"tag", "t", "conf_id", "speed", "state_id", "_links"}

SnapshotValue(k) ==
    CASE k = "tag" -> "manual"
      [] k = "t" -> 1554907724
      [] k = "conf_id" -> "default"
      [] k = "speed" -> 25
      [] k = "state_id" -> 2
      [] k = "_links" -> [self |-> "http://t8/rest/snapshots/LP_Turbine/1554907724"]

Snapshot(leftOut) == [k \in SnapshotKeys \ {leftOut} |-> SnapshotValue(k)]

\* the license of the system info: null for an appliance without one
Licenses ==
    {[null |-> TRUE],
     [changed_at |-> 1554892596, expires_at |-> 1554907724, features |-> <<>>]}

\* the system info with its "license"
Licensed(body, lic) ==
    [k \in DOMAIN body \cup {"license"} |-> IF k = "license" THEN lic ELSE body[k]]

\* --id of config get
IdOptions == {[given |-> FALSE, text |-> ""], [given |-> TRUE, text |-> "default"]}

\* a configuration as the appliance serves it, and one that has no "uid"
ConfigDocs == Documents \cup {[machines |-> <<"LP_Turbine">>]}

\* every answer and every disk with the plain command lines run in UTC,
\* every command line and every time zone with the sound direct answer
Invoked(opt, local, disk, transport, sound) ==
    /\ Explored(transport, sound)
    /\ \/ opt \in PlainTimes /\ local = 0
       \/ transport = Direct /\ sound /\ disk = "writable"

(***************************************************************************)
(* The state machine.  The client is synchronous and holds no state between*)
(* calls: a call starts when none is in progress (op = "none"), runs to its*)
(* outcome in one step, and Return hands the outcome to the caller.        *)
(***************************************************************************)
Init ==
    /\ op = "none"
    /\ arg = [none |-> TRUE]
    /\ ret = Ok(<<>>)
    /\ srv = [none |-> TRUE]
    /\ reqs = <<>>
    /\ errs = <<>>
    /\ files = <<>>

\* a direct call of utils.decode_array
DecodeArray ==
    /\ op = "none"
    /\ \E b \in Payloads, w \in Wirings, fmt \in Formats, dtype \in DTypes :
        LET raw == Mangle(b64encode(Frame(b, w[1])), w[2]) IN
        /\ op' = "decode_array"
        /\ arg' = [raw |-> raw, fmt |-> fmt, dtype |-> dtype]
        /\ srv' = [payload |-> b, framing |-> w[1], mangling |-> w[2]]
        /\ ret' = decode_array(raw, fmt, dtype)
        /\ reqs' = <<>>
        /\ errs' = <<>>
        /\ files' = <<>>

\* T8.get_wave(mach, point, pmode, t, array_fmt)
GetWave ==
    /\ op = "none"
    /\ \E mach \in Machines, point \in Points, pmode \in PModes, t \in Times,
          fmt \in Formats, samples \in SampleLists, factor \in FactorOpts,
          wire \in Wires, leftOut \in WaveKeys \cup {"none"},
          transport \in Transports, rate \in SampleRates :
        LET answer == Answer(transport,
                             Reported(Body(WaveKeys, leftOut,
                                           EncodeSamples(samples, fmt, wire), factor),
                                      "sample_rate", rate))
        IN
        /\ Explored(transport, wire = "sound" /\ leftOut = "none" /\ factor = 0)
        /\ rate # 2560 =>
              transport = Direct /\ wire = "sound" /\ leftOut = "none" /\ factor = 0
        /\ op' = "get_wave"
        /\ arg' = [mach |-> mach, point |-> point, pmode |-> pmode, t |-> t,
                   array_fmt |-> fmt]
        /\ srv' = [samples |-> samples, wire |-> wire, answer |-> answer]
        /\ reqs' = requests_get(WavePath(mach, point, pmode, t, fmt), answer)
        /\ errs' = <<>>
        /\ files' = <<>>
        /\ ret' = get_wave(request(answer), mach, point, pmode, t, fmt)

\* T8.get_spectrum(mach, point, pmode, t, array_fmt)
GetSpectrum ==
    /\ op = "none"
    /\ \E mach \in Machines, point \in Points, pmode \in PModes, t \in Times,
          fmt \in Formats, samples \in SampleLists, factor \in FactorOpts,
          wire \in Wires, leftOut \in SpectrumKeys \cup {"none"},
          transport \in Transports :
        LET answer == Answer(transport,
                             Body(SpectrumKeys, leftOut,
                                  EncodeSamples(samples, fmt, wire), factor))
        IN
        /\ Explored(transport, wire = "sound" /\ leftOut = "none" /\ factor = 0)
        /\ op' = "get_spectrum"
        /\ arg' = [mach |-> mach, point |-> point, pmode |-> pmode, t |-> t,
                   array_fmt |-> fmt]
        /\ srv' = [samples |-> samples, wire |-> wire, answer |-> answer]
        /\ reqs' = requests_get(SpectrumPath(mach, point, pmode, t, fmt), answer)
        /\ errs' = <<>>
        /\ files' = <<>>
        /\ ret' = get_spectrum(request(answer), mach, point, pmode, t, fmt)

\* a call of utils.format_timestamps
FormatTimestamps ==
    /\ op = "none"
    /\ \E timestamps \in StampLists :
        /\ op' = "format_timestamps"
        /\ arg' = [timestamps |-> timestamps]
        /\ srv' = [none |-> TRUE]
        /\ reqs' = <<>>
        /\ errs' = <<>>
        /\ files' = <<>>
        /\ ret' = Ok(format_timestamps(timestamps))

\* a call of utils.parse_pmode_item
ParsePmodeItem ==
    /\ op = "none"
    /\ \E base \in Bases, segs \in SegLists, trailing \in {"", "/"} :
        LET item == Link(Url(base, segs, trailing)) IN
        /\ op' = "parse_pmode_item"
        /\ arg' = [item |-> item]
        /\ srv' = [base |-> base, segments |-> base.path \o segs, trailing |-> trailing]
        /\ reqs' = <<>>
        /\ errs' = <<>>
        /\ files' = <<>>
        /\ ret' = parse_pmode_item(item)

\* a call of utils.get_link_timestamp
GetLinkTimestamp ==
    /\ op = "none"
    /\ \E path \in StampBases, seg \in StampSegs :
        LET base == [scheme |-> "http:", host |-> "lzfs45.mirror.twave.io", path |-> path]
            item == Link(Url(base, <<seg>>, ""))
        IN
        /\ op' = "get_link_timestamp"
        /\ arg' = [item |-> item]
        /\ srv' = [base |-> base, segments |-> Append(path, seg), trailing |-> ""]
        /\ reqs' = <<>>
        /\ errs' = <<>>
        /\ files' = <<>>
        /\ ret' = get_link_timestamp(item)

\* T8.list_proc_modes()
ListProcModes ==
    /\ op = "none"
    /\ \E items \in ListsOf(PmodeLinks("waves"), MaxItems), withheld \in BOOLEAN,
          transport \in Transports :
        LET answer == Answer(transport, Listing(items, withheld)) IN
        /\ withheld => items = <<>>
        /\ Explored(transport, ~withheld /\ Len(items) <= 1)
        /\ op' = "list_proc_modes"
        /\ arg' = [none |-> TRUE]
        /\ srv' = [items |-> items, answer |-> answer]
        /\ reqs' = requests_get("waves", answer)
        /\ errs' = <<>>
        /\ files' = <<>>
        /\ ret' = list_proc_modes(request(answer))

\* T8.list_params()
ListParams ==
    /\ op = "none"
    /\ \E items \in ListsOf(PmodeLinks("trends/param"), MaxItems), withheld \in BOOLEAN,
          transport \in Transports :
        LET answer == Answer(transport, Listing(items, withheld)) IN
        /\ withheld => items = <<>>
        /\ Explored(transport, ~withheld /\ Len(items) <= 1)
        /\ op' = "list_params"
        /\ arg' = [none |-> TRUE]
        /\ srv' = [items |-> items, answer |-> answer]
        /\ reqs' = requests_get("trends/param", answer)
        /\ errs' = <<>>
        /\ files' = <<>>
        /\ ret' = list_params(request(answer))

\* T8.list_configs
ListConfigs ==
    /\ op = "none"
    /\ \E items \in ListsOf(ConfLinks, MaxItems),
          withheld \in BOOLEAN, transport \in Transports :
        LET answer == Answer(transport, Listing(items, withheld)) IN
        /\ withheld => items = <<>>
        /\ Explored(transport, ~withheld /\ Len(items) <= 1)
        /\ op' = "list_configs"
        /\ arg' = [none |-> TRUE]
        /\ srv' = [items |-> items, answer |-> answer]
        /\ reqs' = requests_get("confs", answer)
        /\ errs' = <<>>
        /\ files' = <<>>
        /\ ret' = list_configs(request(answer))

\* T8.list_snapshots
ListSnapshots ==
    /\ op = "none"
    /\ \E mach \in Machines :
       \E items \in ListsOf(StampLinks("snapshots/" \o mach), MaxItems),
          withheld \in BOOLEAN, transport \in Transports :
        LET answer == Answer(transport, Listing(items, withheld)) IN
        /\ withheld => items = <<>>
        /\ Explored(transport, ~withheld /\ Len(items) <= 1)
        /\ op' = "list_snapshots"
        /\ arg' = [mach |-> mach]
        /\ srv' = [items |-> items, answer |-> answer]
        /\ reqs' = requests_get("snapshots/" \o mach, answer)
        /\ errs' = <<>>
        /\ files' = <<>>
        /\ ret' = list_snapshots(request(answer))

\* T8.list_waves
ListWaves ==
    /\ op = "none"
    /\ \E mach \in Machines, point \in Points, pmode \in PModes :
       \E items \in ListsOf(StampLinks("waves/" \o mach \o "/" \o point \o "/" \o pmode), MaxItems),
          withheld \in BOOLEAN, transport \in Transports :
        LET answer == Answer(transport, Listing(items, withheld)) IN
        /\ withheld => items = <<>>
        /\ Explored(transport, ~withheld /\ Len(items) <= 1)
        /\ op' = "list_waves"
        /\ arg' = [mach |-> mach, point |-> point, pmode |-> pmode]
        /\ srv' = [items |-> items, answer |-> answer]
        /\ reqs' = requests_get("waves/" \o mach \o "/" \o point \o "/" \o pmode, answer)
        /\ errs' = <<>>
        /\ files' = <<>>
        /\ ret' = list_waves(request(answer))

\* T8.list_spectra
ListSpectra ==
    /\ op = "none"
    /\ \E mach \in Machines, point \in Points, pmode \in PModes :
       \E items \in ListsOf(StampLinks("spectra/" \o mach \o "/" \o point \o "/" \o pmode), MaxItems),
          withheld \in BOOLEAN, transport \in Transports :
        LET answer == Answer(transport, Listing(items, withheld)) IN
        /\ withheld => items = <<>>
        /\ Explored(transport, ~withheld /\ Len(items) <= 1)
        /\ op' = "list_spectra"
        /\ arg' = [mach |-> mach, point |-> point, pmode |-> pmode]
        /\ srv' = [items |-> items, answer |-> answer]
        /\ reqs' = requests_get("spectra/" \o mach \o "/" \o point \o "/" \o pmode, answer)
        /\ errs' = <<>>
        /\ files' = <<>>
        /\ ret' = list_spectra(request(answer))

\* T8.list_wave_modes()
ListWaveModes ==
    /\ op = "none"
    /\ \E items \in ListsOf(WaveModeItems, MaxItems), withheld \in BOOLEAN,
          transport \in Transports :
        LET answer == Answer(transport, Listing(items, withheld)) IN
        /\ withheld => items = <<>>
        /\ Explored(transport, ~withheld /\ Len(items) <= 1)
        /\ op' = "list_wave_modes"
        /\ arg' = [none |-> TRUE]
        /\ srv' = [items |-> items, answer |-> answer]
        /\ reqs' = requests_get("waves", answer)
        /\ errs' = <<>>
        /\ files' = <<>>
        /\ ret' = list_wave_modes(request(answer))

\* T8.get_config(conf)
GetConfig ==
    /\ op = "none"
    /\ \E conf \in Confs, document \in Documents, transport \in Transports :
        LET answer == Answer(transport, document) IN
        /\ op' = "get_config"
        /\ arg' = [conf |-> conf]
        /\ srv' = [answer |-> answer]
        /\ reqs' = requests_get("confs/" \o conf, answer)
        /\ errs' = <<>>
        /\ files' = <<>>
        /\ ret' = get_config(request(answer))

\* T8.get_snapshot(mach, t)
GetSnapshot ==
    /\ op = "none"
    /\ \E mach \in Machines, t \in Times, document \in Documents,
          transport \in Transports :
        LET answer == Answer(transport, document) IN
        /\ op' = "get_snapshot"
        /\ arg' = [mach |-> mach, t |-> t]
        /\ srv' = [answer |-> answer]
        /\ reqs' = requests_get("snapshots/" \o mach \o "/" \o ToString(t), answer)
        /\ errs' = <<>>
        /\ files' = <<>>
        /\ ret' = get_snapshot(request(answer))

\* T8.get_status()
GetStatus ==
    /\ op = "none"
    /\ \E i \in 0..Len(StatusFields), transport \in Transports :
        LET leftOut == IF i = 0 THEN "none" ELSE StatusFields[i]
            answer == Answer(transport, Info(StatusFields, leftOut))
        IN
        /\ op' = "get_status"
        /\ arg' = [none |-> TRUE]
        /\ srv' = [leftOut |-> leftOut, answer |-> answer]
        /\ reqs' = requests_get("info/status", answer)
        /\ errs' = <<>>
        /\ files' = <<>>
        /\ ret' = get_status(request(answer))

\* T8.get_system_info()
GetSystemInfo ==
    /\ op = "none"
    /\ \E i \in 0..Len(SystemInfoFields), optional \in {"none", "exp_module"},
          transport \in Transports :
        LET leftOut == IF i = 0 THEN optional ELSE SystemInfoFields[i]
            answer == Answer(transport,
                             Info(SystemInfoFields \o <<"exp_module">>, leftOut))
        IN
        /\ op' = "get_system_info"
        /\ arg' = [none |-> TRUE]
        /\ srv' = [leftOut |-> leftOut, answer |-> answer]
        /\ reqs' = requests_get("info/system", answer)
        /\ errs' = <<>>
        /\ files' = <<>>
        /\ ret' = get_system_info(request(answer))

\* T8.get_machine_trend
GetMachineTrend ==
    /\ op = "none"
    /\ \E mach \in Machines, n \in 0..MaxTrend,
          hit \in MachineTrendKeys \cup {"none"}, defect \in Defects, transport \in Transports :
        LET answer == Answer(transport, TrendBody(MachineTrendKeys, n, hit, defect)) IN
        /\ hit = "none" => defect = "missing"
        /\ Explored(transport, hit = "none")
        /\ op' = "get_machine_trend"
        /\ arg' = [mach |-> mach]
        /\ srv' = [keys |-> MachineTrendKeys, n |-> n, hit |-> hit, defect |-> defect,
                   answer |-> answer]
        /\ reqs' = requests_get("trends/mach/" \o mach \o "?array_fmt=zlib", answer)
        /\ errs' = <<>>
        /\ files' = <<>>
        /\ ret' = get_machine_trend(request(answer))

\* T8.get_point_trend
GetPointTrend ==
    /\ op = "none"
    /\ \E mach \in Machines, point \in Points, n \in 0..MaxTrend,
          hit \in PointTrendKeys \cup {"none"}, defect \in Defects, transport \in Transports :
        LET answer == Answer(transport, TrendBody(PointTrendKeys, n, hit, defect)) IN
        /\ hit = "none" => defect = "missing"
        /\ Explored(transport, hit = "none")
        /\ op' = "get_point_trend"
        /\ arg' = [mach |-> mach, point |-> point]
        /\ srv' = [keys |-> PointTrendKeys, n |-> n, hit |-> hit, defect |-> defect,
                   answer |-> answer]
        /\ reqs' = requests_get("trends/point/" \o mach \o "/" \o point \o "?array_fmt=zlib", answer)
        /\ errs' = <<>>
        /\ files' = <<>>
        /\ ret' = get_point_trend(request(answer))

\* T8.get_proc_mode_trend
GetProcModeTrend ==
    /\ op = "none"
    /\ \E mach \in Machines, point \in Points, pmode \in PModes, n \in 0..MaxTrend,
          hit \in ProcModeTrendKeys \cup {"none"}, defect \in Defects, transport \in Transports :
        LET answer == Answer(transport, TrendBody(ProcModeTrendKeys, n, hit, defect)) IN
        /\ hit = "none" => defect = "missing"
        /\ Explored(transport, hit = "none")
        /\ op' = "get_proc_mode_trend"
        /\ arg' = [mach |-> mach, point |-> point, pmode |-> pmode]
        /\ srv' = [keys |-> ProcModeTrendKeys, n |-> n, hit |-> hit, defect |-> defect,
                   answer |-> answer]
        /\ reqs' = requests_get("trends/pmode/" \o mach \o "/" \o point \o "/" \o pmode
                                    \o "?array_fmt=zlib", answer)
        /\ errs' = <<>>
        /\ files' = <<>>
        /\ ret' = get_proc_mode_trend(request(answer))

\* T8.get_param_trend
GetParamTrend ==
    /\ op = "none"
    /\ \E mach \in Machines, point \in Points, param \in Params, n \in 0..MaxTrend,
          hit \in ParamTrendKeys \cup {"none"}, defect \in Defects, transport \in Transports :
        LET answer == Answer(transport, TrendBody(ParamTrendKeys, n, hit, defect)) IN
        /\ hit = "none" => defect = "missing"
        /\ Explored(transport, hit = "none")
        /\ op' = "get_param_trend"
        /\ arg' = [mach |-> mach, point |-> point, param |-> param]
        /\ srv' = [keys |-> ParamTrendKeys, n |-> n, hit |-> hit, defect |-> defect,
                   answer |-> answer]
        /\ reqs' = requests_get("trends/param/" \o mach \o "/" \o point \o "/" \o param
                                    \o "?array_fmt=zlib", answer)
        /\ errs' = <<>>
        /\ files' = <<>>
        /\ ret' = get_param_trend(request(answer))

\* a call of utils.parse_timestamp with a well-formed text
ParseTimestamp ==
    /\ op = "none"
    /\ \E date \in IsoDates, sep \in {"T", " "}, clock \in IsoClocks,
          fraction \in IsoFractions, zone \in IsoZones, local \in LocalOffsets :
        LET text == date.text \o sep \o clock.text \o fraction.text \o zone.text IN
        /\ fraction.text # "" => Len(clock.text) = 8
        /\ op' = "parse_timestamp"
        /\ arg' = [timestamp |-> text]
        /\ srv' = [valid |-> TRUE, local |-> local, days |-> date.days,
                   secs |-> clock.secs, micro |-> fraction.micro,
                   utcoffset |-> IF zone.aware THEN zone.minutes ELSE local]
        /\ reqs' = <<>>
        /\ errs' = <<>>
        /\ files' = <<>>
        /\ ret' = parse_timestamp(text, local)

\* a call of utils.parse_timestamp with a text that is no timestamp
ParseMalformedTimestamp ==
    /\ op = "none"
    /\ \E text \in MalformedTexts, local \in LocalOffsets :
        /\ op' = "parse_timestamp"
        /\ arg' = [timestamp |-> text]
        /\ srv' = [valid |-> FALSE, local |-> local]
        /\ reqs' = <<>>
        /\ errs' = <<>>
        /\ files' = <<>>
        /\ ret' = parse_timestamp(text, local)

\* a command of the tool ran to its end
Run(name, args, env, outcome) ==
    /\ op' = name
    /\ arg' = args
    /\ srv' = env
    /\ ret' = outcome.ret
    /\ errs' = outcome.errs
    /\ files' = outcome.files
    /\ reqs' = outcome.reqs

\* t8 snapshot get
GetSnapshotCmd ==
    /\ op = "none"
    /\ \E machine \in Machines, opt \in TimeOptions, local \in LocalOffsets,
          disk \in Disks, transport \in Transports,
          leftOut \in SnapshotKeys \cup {"none"} :
        /\ Invoked(opt, local, disk, transport, leftOut = "none")
        /\ \E answer \in {Answer(transport, Snapshot(leftOut))} :
           \E outcome \in {get_snapshot_cmd(machine, click_option(opt, DefaultTime),
                                            local, answer, disk)} :
            Run("snapshot get", [machine |-> machine, time |-> opt],
                [answer |-> answer, local |-> local, disk |-> disk], outcome)

\* t8 wave get
GetWaveCmd ==
    /\ op = "none"
    /\ \E machine \in Machines, point \in Points, pmode \in PModes,
          opt \in TimeOptions, local \in LocalOffsets, disk \in Disks,
          transport \in Transports, samples \in Recordings,
          wire \in {"sound", "checksum"}, leftOut \in {"none", "snap_t"},
          rate \in SampleRates :
        /\ Invoked(opt, local, disk, transport,
                   wire = "sound" /\ leftOut = "none" /\ rate = 2560
                       /\ samples # <<>>)
        /\ \E body \in {Body(WaveKeys, leftOut,
                             EncodeSamples(samples, DefaultArrayFmt, wire), 0)} :
           \E answer \in {Answer(transport,
                                 Reported(Reported(body, "sample_rate", rate),
                                          "snap_t", SnapT))} :
           \E outcome \in {get_wave_cmd(machine, point, pmode,
                                        click_option(opt, DefaultTime), local,
                                        answer, disk)} :
            Run("wave get",
                [machine |-> machine, point |-> point, pmode |-> pmode, time |-> opt],
                [answer |-> answer, local |-> local, disk |-> disk], outcome)

\* t8 spectrum get
GetSpectrumCmd ==
    /\ op = "none"
    /\ \E machine \in Machines, point \in Points, pmode \in PModes,
          opt \in TimeOptions, local \in LocalOffsets, disk \in Disks,
          transport \in Transports, samples \in Recordings,
          wire \in {"sound", "checksum"}, leftOut \in {"none", "window"} :
        /\ Invoked(opt, local, disk, transport,
                   wire = "sound" /\ leftOut = "none" /\ samples # <<>>)
        /\ \E body \in {Body(SpectrumKeys, leftOut,
                             EncodeSamples(samples, DefaultArrayFmt, wire), 0)} :
           \E answer \in {Answer(transport, Reported(body, "snap_t", SnapT))} :
           \E outcome \in {get_spectrum_cmd(machine, point, pmode,
                                            click_option(opt, DefaultTime), local,
                                            answer, disk)} :
            Run("spectrum get",
                [machine |-> machine, point |-> point, pmode |-> pmode, time |-> opt],
                [answer |-> answer, local |-> local, disk |-> disk], outcome)

\* t8 info
InfoCmd ==
    /\ op = "none"
    /\ \E leftOut \in {"none", "full_serial"}, lic \in Licenses,
          transport \in Transports :
        /\ Explored(transport, leftOut = "none" /\ lic # [null |-> TRUE])
        /\ \E answer \in {Answer(transport,
                                 Licensed(Info(SystemInfoFields \o <<"exp_module">>,
                                               leftOut), lic))} :
           \E outcome \in {info(answer)} :
            Run("info", [none |-> TRUE], [answer |-> answer], outcome)

\* t8 license
LicenseCmd ==
    /\ op = "none"
    /\ \E leftOut \in {"none", "full_serial"}, lic \in Licenses,
          transport \in Transports :
        /\ Explored(transport, leftOut = "none" /\ lic # [null |-> TRUE])
        /\ \E answer \in {Answer(transport,
                                 Licensed(Info(SystemInfoFields \o <<"exp_module">>,
                                               leftOut), lic))} :
           \E outcome \in {license(answer)} :
            Run("license", [none |-> TRUE], [answer |-> answer], outcome)

\* t8 status
StatusCmd ==
    /\ op = "none"
    /\ \E leftOut \in {"none", "timestamp"}, transport \in Transports :
        /\ Explored(transport, leftOut = "none")
        /\ \E answer \in {Answer(transport, Info(StatusFields, leftOut))} :
           \E outcome \in {status(answer)} :
            Run("status", [none |-> TRUE], [answer |-> answer], outcome)

\* t8 config list
ListConfigsCmd ==
    /\ op = "none"
    /\ \E items \in ListsOf(ConfLinks, 1), withheld \in BOOLEAN,
          transport \in Transports :
        /\ withheld => items = <<>>
        /\ Explored(transport, ~withheld)
        /\ \E answer \in {Answer(transport, Listing(items, withheld))} :
           \E outcome \in {list_configs_cmd(answer)} :
            Run("config list", [none |-> TRUE], [answer |-> answer], outcome)

\* t8 config get
GetConfigCmd ==
    /\ op = "none"
    /\ \E opt \in IdOptions, leftOut \in {"none", "full_serial"},
          document \in ConfigDocs, disk \in Disks,
          reached \in Transports, transport \in Transports :
        /\ reached = Direct \/ transport = Direct
        /\ Explored(reached, leftOut = "none" /\ ~opt.given /\ disk = "writable")
        /\ Explored(transport, leftOut = "none" /\ ~opt.given /\ disk = "writable")
        /\ \E about \in {Answer(reached,
                                Info(SystemInfoFields \o <<"exp_module">>, leftOut))},
              answer \in {Answer(transport, document)} :
           \E outcome \in {get_config_cmd(click_option(opt, "0"), about, answer, disk)} :
            Run("config get", [id |-> opt],
                [about |-> about, answer |-> answer, disk |-> disk], outcome)

\* t8 config proc-modes
ProcModesCmd ==
    /\ op = "none"
    /\ \E items \in ListsOf(PmodeLinks("waves"), 1), withheld \in BOOLEAN,
          transport \in Transports :
        /\ withheld => items = <<>>
        /\ Explored(transport, ~withheld)
        /\ \E answer \in {Answer(transport, Listing(items, withheld))} :
           \E outcome \in {proc_modes(answer)} :
            Run("config proc-modes", [none |-> TRUE], [answer |-> answer], outcome)

\* t8 config params
ParamsCmd ==
    /\ op = "none"
    /\ \E items \in ListsOf(PmodeLinks("trends/param"), 1), withheld \in BOOLEAN,
          transport \in Transports :
        /\ withheld => items = <<>>
        /\ Explored(transport, ~withheld)
        /\ \E answer \in {Answer(transport, Listing(items, withheld))} :
           \E outcome \in {params(answer)} :
            Run("config params", [none |-> TRUE], [answer |-> answer], outcome)

\* t8 snapshot list
ListSnapshotsCmd ==
    /\ op = "none"
    /\ \E machine \in Machines :
       \E items \in ListsOf(StampLinks("snapshots/" \o machine), 1),
          withheld \in BOOLEAN, transport \in Transports :
        /\ withheld => items = <<>>
        /\ Explored(transport, ~withheld)
        /\ \E answer \in {Answer(transport, Listing(items, withheld))} :
           \E outcome \in {list_snapshots_cmd(machine, answer)} :
            Run("snapshot list", [machine |-> machine], [answer |-> answer], outcome)

\* t8 wave list
ListWavesCmd ==
    /\ op = "none"
    /\ \E machine \in Machines, point \in Points, pmode \in PModes :
       \E items \in ListsOf(StampLinks("waves/" \o machine \o "/" \o point \o "/"
                                           \o pmode), 1),
          withheld \in BOOLEAN, transport \in Transports :
        /\ withheld => items = <<>>
        /\ Explored(transport, ~withheld)
        /\ \E answer \in {Answer(transport, Listing(items, withheld))} :
           \E outcome \in {list_waves_cmd(machine, point, pmode, answer)} :
            Run("wave list", [machine |-> machine, point |-> point, pmode |-> pmode],
                [answer |-> answer], outcome)

\* t8 spectrum list
ListSpectraCmd ==
    /\ op = "none"
    /\ \E machine \in Machines, point \in Points, pmode \in PModes :
       \E items \in ListsOf(StampLinks("spectra/" \o machine \o "/" \o point \o "/"
                                           \o pmode), 1),
          withheld \in BOOLEAN, transport \in Transports :
        /\ withheld => items = <<>>
        /\ Explored(transport, ~withheld)
        /\ \E answer \in {Answer(transport, Listing(items, withheld))} :
           \E outcome \in {list_spectra_cmd(machine, point, pmode, answer)} :
            Run("spectrum list", [machine |-> machine, point |-> point, pmode |-> pmode],
                [answer |-> answer], outcome)

\* t8 trend machine
MachineTrendCmd ==
    /\ op = "none"
    /\ \E machine \in Machines, hit \in {"none", "t.I"}, defect \in Defects,
          disk \in Disks, transport \in Transports :
        /\ hit = "none" => defect = "missing"
        /\ Explored(transport, hit = "none")
        /\ \E answer \in {Answer(transport, TrendBody(MachineTrendKeys, 1, hit, defect))} :
           \E outcome \in {machine_trend_cmd(machine, answer, disk)} :
            Run("trend machine", [machine |-> machine],
                [answer |-> answer, disk |-> disk, hit |-> hit, defect |-> defect],
                outcome)

\* t8 trend point
PointTrendCmd ==
    /\ op = "none"
    /\ \E machine \in Machines, point \in Points, hit \in {"none", "t.I"},
          defect \in Defects, disk \in Disks, transport \in Transports :
        /\ hit = "none" => defect = "missing"
        /\ Explored(transport, hit = "none")
        /\ \E answer \in {Answer(transport, TrendBody(PointTrendKeys, 1, hit, defect))} :
           \E outcome \in {point_trend_cmd(machine, point, answer, disk)} :
            Run("trend point", [machine |-> machine, point |-> point],
                [answer |-> answer, disk |-> disk, hit |-> hit, defect |-> defect],
                outcome)

\* t8 trend pmode
ProcModeTrendCmd ==
    /\ op = "none"
    /\ \E machine \in Machines, point \in Points, pmode \in PModes,
          hit \in {"none", "t.I"}, defect \in Defects, disk \in Disks,
          transport \in Transports :
        /\ hit = "none" => defect = "missing"
        /\ Explored(transport, hit = "none")
        /\ \E answer \in {Answer(transport, TrendBody(ProcModeTrendKeys, 1, hit, defect))} :
           \E outcome \in {proc_mode_trend_cmd(machine, point, pmode, answer, disk)} :
            Run("trend pmode", [machine |-> machine, point |-> point, pmode |-> pmode],
                [answer |-> answer, disk |-> disk, hit |-> hit, defect |-> defect],
                outcome)

\* t8 trend param
ParamTrendCmd ==
    /\ op = "none"
    /\ \E machine \in Machines, point \in Points, param \in Params,
          hit \in {"none", "t.I"}, defect \in Defects, disk \in Disks,
          transport \in Transports :
        /\ hit = "none" => defect = "missing"
        /\ Explored(transport, hit = "none")
        /\ \E answer \in {Answer(transport, TrendBody(ParamTrendKeys, 1, hit, defect))} :
           \E outcome \in {param_trend_cmd(machine, point, param, answer, disk)} :
            Run("trend param", [machine |-> machine, point |-> point, param |-> param],
                [answer |-> answer, disk |-> disk, hit |-> hit, defect |-> defect],
                outcome)

\* the caller takes the outcome; the client is ready for the next call
Return ==
    /\ op # "none"
    /\ op' = "none"
    /\ arg' = [none |-> TRUE]
    /\ ret' = Ok(<<>>)
    /\ srv' = [none |-> TRUE]
    /\ reqs' = <<>>
    /\ errs' = <<>>
    /\ files' = <<>>

Next ==
    \/ DecodeArray
    \/ GetWave
    \/ GetSpectrum
    \/ FormatTimestamps
    \/ ParsePmodeItem
    \/ GetLinkTimestamp
    \/ ListProcModes
    \/ ListParams
    \/ ListConfigs
    \/ ListSnapshots
    \/ ListWaves
    \/ ListSpectra
    \/ ListWaveModes
    \/ GetConfig
    \/ GetSnapshot
    \/ GetStatus
    \/ GetSystemInfo
    \/ GetMachineTrend
    \/ GetPointTrend
    \/ GetProcModeTrend
    \/ GetParamTrend
    \/ ParseTimestamp
    \/ ParseMalformedTimestamp
    \/ GetSnapshotCmd
    \/ GetWaveCmd
    \/ GetSpectrumCmd
    \/ InfoCmd
    \/ LicenseCmd
    \/ StatusCmd
    \/ ListConfigsCmd
    \/ GetConfigCmd
    \/ ProcModesCmd
    \/ ParamsCmd
    \/ ListSnapshotsCmd
    \/ ListWavesCmd
    \/ ListSpectraCmd
    \/ MachineTrendCmd
    \/ PointTrendCmd
    \/ ProcModeTrendCmd
    \/ ParamTrendCmd
    \/ Return

Spec == Init /\ [][Next]_vars

(***************************************************************************)
(* Properties of the array codec.                                          *)
(***************************************************************************)
KnownFormats == {"zint", "zlib", "b64"}

\* base64 text in canonical form: whole quads of alphabet characters, the
\* last quad padded with at most two "=".
ForeignChar(t) == \E i \in 1..Len(t) : CharAt(t, i) \notin B64Alphabet \cup {"="}

InvalidPadding(t) ==
    \/ Len(t) % 4 # 0
    \/ \E i \in 1..Len(t) : CharAt(t, i) = "=" /\ i < Len(t) - 1
    \/ Len(t) >= 2 /\ CharAt(t, Len(t) - 1) = "=" /\ CharAt(t, Len(t)) # "="

ValidBase64(t) == ~ForeignChar(t) /\ ~InvalidPadding(t)

\* the bytes decode_array(raw, fmt, ...) has to reinterpret, when it gets
\* that far
BufferOf(raw, fmt) ==
    LET data == b64decode(raw) IN
    IF ~data.ok \/ fmt = "b64" THEN data ELSE decompress(data.val)

WidthOf(fmt, dtype) == IF fmt = "zint" THEN 2 ELSE itemsize[dtype]

Decoding == op = "decode_array"

\* every outcome is a returned value or one of the exceptions of the code
TypeOK ==
    /\ ret.ok \in BOOLEAN
    /\ ret.err # "unmodelled"
    /\ ret.ok <=> ret.err = ""

\* C1: for valid base64 text whose bytes are a zlib stream of signed 16-bit
\* integers, decode_array(raw, fmt="zint") returns inflated_length / 2
\* elements and element i is the value of the i-th integer, not rescaled.
ZintDecodesInt16 ==
    (Decoding /\ arg.fmt = "zint" /\ arg.dtype = "float32" /\ ValidBase64(arg.raw)) =>
        LET d == BufferOf(arg.raw, "zint") IN
        (d.ok /\ Len(d.val) % 2 = 0) =>
            /\ ret.ok
            /\ ret.val.dtype = "float32"
            /\ Len(ret.val.items) = Len(d.val) \div 2
            /\ \A i \in 1..Len(ret.val.items) :
                  /\ F32IsInt(ret.val.items[i])
                  /\ F32Value(ret.val.items[i])
                        = Int16Value(SubSeq(d.val, 2 * i - 1, 2 * i))
            /\ (srv.framing \in SoundFramings /\ srv.mangling = "none")
                  => d.val = srv.payload

ZintDecodesInt16Witness ==
    /\ Decoding /\ arg.fmt = "zint" /\ arg.dtype = "float32"
    /\ ValidBase64(arg.raw)
    /\ ret.ok
    /\ Len(ret.val.items) = 2
    /\ F32Value(ret.val.items[1]) = -24455
    /\ F32Value(ret.val.items[2]) = -24455

\* C2: for valid base64 text whose bytes are a zlib stream of 32-bit floats,
\* decode_array(raw, fmt="zlib") returns one element per 4-byte group of the
\* inflated buffer, in the same order and with the same bytes.
ZlibDecodesFloat32 ==
    (Decoding /\ arg.fmt = "zlib" /\ arg.dtype = "float32" /\ ValidBase64(arg.raw)) =>
        LET d == BufferOf(arg.raw, "zlib") IN
        (d.ok /\ Len(d.val) % 4 = 0) =>
            /\ ret.ok
            /\ ret.val.dtype = "float32"
            /\ Len(ret.val.items) = Len(d.val) \div 4
            /\ \A i \in 1..Len(ret.val.items) :
                  \A k \in 1..4 : ret.val.items[i][k] = d.val[(i - 1) * 4 + k]
            /\ (srv.framing \in SoundFramings /\ srv.mangling = "none")
                  => d.val = srv.payload

ZlibDecodesFloat32Witness ==
    /\ Decoding /\ arg.fmt = "zlib" /\ arg.dtype = "float32"
    /\ ValidBase64(arg.raw)
    /\ ret.ok
    /\ ret.val.items = << <<0, 0, 128, 63>>, <<0, 0, 0, 192>> >>

\* C4 as stated: whatever raw is, decode_array with a fmt other than "zint",
\* "zlib" and "b64" fails with the unknown-format error.
UnknownFormatAlwaysReported ==
    (Decoding /\ arg.fmt \notin KnownFormats) =>
        ~ret.ok /\ ret.err = "ValueError: Unknown array format"

\* C4 amended: decode_array with a fmt other than "zint", "zlib" and "b64"
\* never returns an array, and the error is the unknown-format error
\* whenever the base64 decoding of raw succeeds.
UnknownFormatFails ==
    (Decoding /\ arg.fmt \notin KnownFormats) =>
        /\ ~ret.ok
        /\ b64decode(arg.raw).ok => ret.err = "ValueError: Unknown array format"

UnknownFormatFailsWitness ==
    /\ Decoding /\ arg.fmt \notin KnownFormats
    /\ srv.framing = "plain" /\ srv.mangling = "none" /\ Len(srv.payload) = 4
    /\ ret.err = "ValueError: Unknown array format"

\* C5: decode_array fails with the invalid-base64 error, whatever the format,
\* when raw has invalid padding or a character outside the base64 alphabet.
InvalidBase64Rejected ==
    (Decoding /\ (ForeignChar(arg.raw) \/ InvalidPadding(arg.raw))) =>
        ~ret.ok /\ ret.err = "binascii.Error"

\* C6: decode_array fails when the buffer it reinterprets is not a whole
\* number of elements (2 bytes each for "zint", the width of dtype
\* otherwise); it never returns an array that leaves trailing bytes out.
MisalignedBufferRejected ==
    (Decoding /\ arg.fmt \in KnownFormats) =>
        LET d == BufferOf(arg.raw, arg.fmt)
            w == WidthOf(arg.fmt, arg.dtype)
        IN
        d.ok =>
            /\ Len(d.val) % w # 0 => ~ret.ok /\ ret.err = "ValueError: buffer size"
            /\ ret.ok => Len(ret.val.items) * w = Len(d.val)

MisalignedBufferRejectedWitness ==
    /\ Decoding /\ arg.fmt = "zlib" /\ arg.dtype = "float32"
    /\ srv.framing = "stored" /\ srv.mangling = "none"
    /\ Len(srv.payload) = 5
    /\ ret.err = "ValueError: buffer size"

(***************************************************************************)
(* Properties of the telemetry client.                                     *)
(***************************************************************************)
Fetching == op \in {"get_wave", "get_spectrum"}

RequiredKeys == IF op = "get_wave" THEN WaveKeys ELSE SpectrumKeys

\* C3: get_wave and get_spectrum return data as long as the decoded payload
\* whose i-th element is decoded[i] * factor, with factor the "factor" field
\* of the response, or 1.0 when the response has none: such a response
\* succeeds and its decoded samples come back unchanged.
FactorApplied ==
    (Fetching /\ srv.answer.status = 200 /\ Has(srv.answer.body, "data")) =>
        LET body == srv.answer.body
            decoded == decode_array(body.data, arg.array_fmt, "float32")
            factor == IF Has(body, "factor") THEN body.factor ELSE 1
        IN
        (decoded.ok /\ RequiredKeys \subseteq DOMAIN body) =>
            /\ ret.ok
            /\ Len(ret.val.data.items) = Len(decoded.val.items)
            /\ \A i \in 1..Len(decoded.val.items) :
                  /\ F32IsInt(decoded.val.items[i])
                  /\ F32IsInt(ret.val.data.items[i])
                  /\ F32Value(ret.val.data.items[i])
                        = F32Value(decoded.val.items[i]) * factor
            /\ ~Has(body, "factor") => ret.val.data = decoded.val
            /\ srv.wire = "sound" =>
                  /\ Len(ret.val.data.items) = Len(srv.samples)
                  /\ \A i \in 1..Len(srv.samples) :
                        F32Value(ret.val.data.items[i]) = srv.samples[i] * factor

FactorAppliedWitness ==
    /\ op = "get_wave" /\ arg.array_fmt = "zint"
    /\ srv.answer.status = 200
    /\ ~Has(srv.answer.body, "factor")
    /\ srv.samples = <<1, -3>>
    /\ ret.ok
    /\ Len(ret.val.data.items) = 2
    /\ F32Value(ret.val.data.items[2]) = -3

(***************************************************************************)
(* Properties of the timestamp formatter and of the link parser.           *)
(***************************************************************************)
RECURSIVE NonZero(_)
NonZero(ts) ==
    IF ts = <<>> THEN <<>>
    ELSE IF Head(ts) = 0 THEN NonZero(Tail(ts))
    ELSE <<Head(ts)>> \o NonZero(Tail(ts))

\* C7: format_timestamps returns the formatted strings of the elements
\* different from 0, in their order: as many strings as non-zero inputs,
\* and none of them the format of 0.
ZeroTimestampsSkipped ==
    op = "format_timestamps" =>
        LET kept == NonZero(arg.timestamps) IN
        /\ ret.ok
        /\ Len(ret.val) = Len(kept)
        /\ \A i \in 1..Len(kept) : ret.val[i] = format_timestamp(kept[i])
        /\ \A i \in 1..Len(ret.val) : ret.val[i] # "1970-01-01T00:00:00+00:00"

ZeroTimestampsSkippedWitness ==
    /\ op = "format_timestamps"
    /\ arg.timestamps = <<1633024800, 0, 1633111200>>
    /\ ret.val = <<"2021-09-30T18:00:00+00:00", "2021-10-01T18:00:00+00:00">>

RECURSIVE NonEmpty(_)
NonEmpty(segs) ==
    IF segs = <<>> THEN <<>>
    ELSE IF Head(segs) = "" THEN NonEmpty(Tail(segs))
    ELSE <<Head(segs)>> \o NonEmpty(Tail(segs))

\* C8: parse_pmode_item returns as machine, point and tag the last three
\* non-empty path segments of the URL, trailing slashes trimmed; none of the
\* three fields is ever the empty string.
LastThreeNonEmptySegments ==
    op = "parse_pmode_item" =>
        LET segs == NonEmpty(srv.segments)
            n == Len(segs)
        IN
        /\ n >= 3 => /\ ret.ok
                     /\ ret.val = [machine |-> segs[n - 2], point |-> segs[n - 1],
                                   tag |-> segs[n]]
        /\ ret.ok => ret.val.machine # "" /\ ret.val.point # "" /\ ret.val.tag # ""

\* C9: parse_pmode_item fails for every link whose URL has fewer than three
\* path segments, and never returns the scheme or the host as machine or
\* point.
ShortLinkRejected ==
    op = "parse_pmode_item" =>
        /\ Len(NonEmpty(srv.segments)) < 3 => ~ret.ok
        /\ (ret.ok /\ srv.base.scheme # "") =>
              /\ ret.val.machine \notin {srv.base.scheme, srv.base.host}
              /\ ret.val.point \notin {srv.base.scheme, srv.base.host}

RECURSIVE DigitsValue(_)
DigitsValue(s) ==
    IF s = "" THEN 0
    ELSE DigitsValue(SubSeq(s, 1, Len(s) - 1)) * 10 + DigitValue[CharAt(s, Len(s))]

AllDigits(s) == Len(s) > 0 /\ \A i \in 1..Len(s) : CharAt(s, i) \in Digits

LastSegment == srv.segments[Len(srv.segments)]

\* C10: for every link whose URL ends with "/<decimal digits>",
\* get_link_timestamp returns the integer the digits denote, whatever the
\* rest of the URL is.
TimestampOfLink ==
    (op = "get_link_timestamp" /\ AllDigits(LastSegment)) =>
        ret.ok /\ ret.val = DigitsValue(LastSegment)

TimestampOfLinkWitness ==
    /\ op = "get_link_timestamp"
    /\ arg.item["_links"]["self"]
          = "http://lzfs45.mirror.twave.io/lzfs45/rest/waves/LP_Turbine/MAD32CY005/AM2/1554907724"
    /\ ret.ok /\ ret.val = 1554907724

\* a base-10 integer written plainly: digits, with at most a sign in front
PlainInteger(s) ==
    \/ AllDigits(s)
    \/ Len(s) > 1 /\ Head(s) \in {"+", "-"} /\ AllDigits(Tail(s))

\* C11: get_link_timestamp fails, and returns no integer, whenever the final
\* segment of the URL is not a plain base-10 integer: empty, alphabetic, or
\* digits mixed with underscores or surrounded by whitespace.
NonIntegerSegmentRejected ==
    (op = "get_link_timestamp" /\ ~PlainInteger(LastSegment)) => ~ret.ok

(***************************************************************************)
(* Properties of the listings.                                             *)
(***************************************************************************)
ListingPmodes == op \in {"list_proc_modes", "list_params"}

\* the triples parsed from the links of the listing, in server order
ParsedTriples == [i \in 1..Len(srv.items) |-> parse_pmode_item(srv.items[i])]

Occurrences(x, list) == Cardinality({i \in 1..Len(list) : list[i] = x})

\* C12: list_proc_modes and list_params return a permutation of the triples
\* parsed from the links of "_items" (the same multiset), sorted
\* non-decreasing by (machine, point, tag).
SortedPermutation ==
    (ListingPmodes /\ ret.ok) =>
        \A parsed \in {ParsedTriples} :
        /\ Len(ret.val) = Len(srv.items)
        /\ \A i \in 1..Len(srv.items) :
              /\ parsed[i].ok
              /\ Occurrences(parsed[i].val, ret.val)
                     = Cardinality({j \in 1..Len(srv.items) : parsed[j] = parsed[i]})
        /\ \A i \in 1..(Len(ret.val) - 1) :
              ~TupleLess(PmodeKey(ret.val[i + 1]), PmodeKey(ret.val[i]))

\* a listing in descending server order comes back ascending
SortedPermutationWitness ==
    /\ op = "list_proc_modes"
    /\ srv.answer.status = 200
    /\ Len(srv.items) = 3
    /\ srv.items[1] = Link("http://lzfs45.mirror.twave.io/lzfs45/rest/waves/LP_Turbine/MAD32CY005/AM2/")
    /\ srv.items[2] = Link("http://lzfs45.mirror.twave.io/lzfs45/rest/waves/LP_Turbine/MAD32CY005/AM1/")
    /\ srv.items[3] = Link("http://lzfs45.mirror.twave.io/lzfs45/rest/waves/HP_Turbine/MAD32CY005/AM2/")
    /\ ret = Ok(<<[machine |-> "HP_Turbine", point |-> "MAD32CY005", tag |-> "AM2"],
                  [machine |-> "LP_Turbine", point |-> "MAD32CY005", tag |-> "AM1"],
                  [machine |-> "LP_Turbine", point |-> "MAD32CY005", tag |-> "AM2"]>>)

ListingStamps == op \in {"list_waves", "list_spectra", "list_snapshots"}

\* the timestamps of the links of the listing, in server order
LinkStamps == [i \in 1..Len(srv.items) |-> get_link_timestamp(srv.items[i])]

\* C13: list_waves, list_spectra and list_snapshots return a sequence as long
\* as "_items" whose i-th element is the timestamp parsed from the i-th
\* link: server order, nothing sorted, filtered or dropped as a duplicate.
ServerOrderKept ==
    ListingStamps =>
        \A stamps \in {LinkStamps} :
        /\ ret.ok =>
              /\ Len(ret.val) = Len(srv.items)
              /\ \A i \in 1..Len(srv.items) : Ok(ret.val[i]) = stamps[i]
        /\ (srv.answer.reached /\ srv.answer.status = 200
                /\ Has(srv.answer.body, "_items")
                /\ \A i \in 1..Len(srv.items) : stamps[i].ok) => ret.ok

\* a listing with the later capture first, the timestamp 0 and a repeat
ServerOrderKeptWitness ==
    /\ op = "list_waves"
    /\ srv.answer.status = 200
    /\ Len(srv.items) = 3
    /\ ret = Ok(<<1554907724, 0, 1554907724>>)

(***************************************************************************)
(* Properties of the transport.                                            *)
(***************************************************************************)
PublicOps ==
    {"list_proc_modes", "list_params", "list_configs", "list_snapshots",
     "list_wave_modes", "list_waves", "list_spectra", "get_wave", "get_spectrum",
     "get_machine_trend", "get_point_trend", "get_proc_mode_trend",
     "get_param_trend", "get_status", "get_system_info", "get_config",
     "get_snapshot"}

\* C14, as claimed: every public retrieval operation puts exactly one HTTP
\* GET on the wire per call, whether it succeeds or fails.
OneGetPerCall == op \in PublicOps => Len(reqs) = 1

\* C14, as the code has it: every public retrieval operation asks once and
\* never again after a failure; the GETs of a call are the one for its URL
\* and one for each redirect that requests follows on the way to the answer.
OneCallNoRetry ==
    op \in PublicOps =>
        /\ Len(reqs) = 1 + srv.answer.hops
        /\ \A i \in 2..Len(reqs) : reqs[i] = Location(reqs[1], i - 1)

\* a server error after a redirect: two GETs, the failure is not retried
OneCallNoRetryWitness ==
    /\ op = "get_param_trend"
    /\ srv.answer.status = 503
    /\ srv.answer.hops = 1
    /\ ~ret.ok
    /\ reqs = <<"trends/param/LP_Turbine/MAD32CY005/Overall?array_fmt=zlib",
                "moved/1/trends/param/LP_Turbine/MAD32CY005/Overall?array_fmt=zlib">>

\* C15: when the response has a non-2xx status, or the connection fails, the
\* operation fails with a transport error and returns no entity.
TransportFailureFails ==
    (op \in PublicOps
        /\ (~srv.answer.reached \/ srv.answer.status \notin 200..299)) =>
        /\ ~ret.ok
        /\ ret.err \in {"requests.ConnectionError", "requests.HTTPError"}

(***************************************************************************)
(* Properties of the records.                                              *)
(***************************************************************************)
Answered == srv.answer.reached /\ srv.answer.status < 400

\* the fields get_wave and get_spectrum need next to the samples
MetaFields == RequiredKeys \ {"data"}

\* C16: get_wave fails and returns no Wave when the response lacks any of
\* speed, snap_t, t, unit_id, sample_rate; get_spectrum fails when it lacks
\* any of speed, snap_t, t, unit_id, min_freq, max_freq, window.  A record
\* that is returned holds the fields of the response, never a default.
MissingFieldFails ==
    (Fetching /\ Answered) =>
        /\ (MetaFields \ DOMAIN srv.answer.body # {}) => ~ret.ok
        /\ ret.ok => \A k \in MetaFields : ret.val[k] = srv.answer.body[k]

\* a spectrum with sound samples and no window
MissingFieldFailsWitness ==
    /\ op = "get_spectrum"
    /\ srv.answer.status = 200
    /\ srv.wire = "sound"
    /\ arg.array_fmt = "zlib"
    /\ DOMAIN srv.answer.body = SpectrumKeys \ {"window"}
    /\ ret = Raise("KeyError: window")

(***************************************************************************)
(* Properties of the trends.                                               *)
(***************************************************************************)
Trending ==
    op \in {"get_machine_trend", "get_point_trend", "get_proc_mode_trend",
            "get_param_trend"}

\* the element type and width a type code declares
CodeType == [I |-> "uint32", f |-> "float32", B |-> "uint8", H |-> "uint16"]
CodeWidth == [I |-> 4, f |-> 4, B |-> 1, H |-> 2]

\* the attribute of the record that the field feeds
AttrOf(key) == split(key, ".")[1]

\* what decoding the field of the response gives
Decoded(key) == decode_array(srv.answer.body[key], "zlib", CodeType[CodeOf(key)])

\* C17: a trend is all or nothing: if a field of the response is missing or
\* fails to decode, the operation fails and returns no record; a record
\* that is returned holds every field as decoded, no default or empty array.
TrendAllOrNothing ==
    (Trending /\ Answered) =>
        /\ ret.ok <=> \A key \in srv.keys :
                          Has(srv.answer.body, key) /\ Decoded(key).ok
        /\ ret.ok => /\ DOMAIN ret.val = {AttrOf(key) : key \in srv.keys}
                     /\ \A key \in srv.keys : ret.val[AttrOf(key)] = Decoded(key).val

\* the last field of a machine trend fails its checksum
TrendAllOrNothingWitness ==
    /\ op = "get_machine_trend"
    /\ srv.answer.status = 200
    /\ srv.n = 2
    /\ srv.hit = "strategy.B"
    /\ srv.defect = "checksum"
    /\ ~ret.ok

\* C18: every Trend returned has all of its arrays of equal length; fields
\* that decode to different lengths make the operation fail.
TrendLengthsEqual ==
    (Trending /\ ret.ok) =>
        \A a, b \in DOMAIN ret.val : Len(ret.val[a].items) = Len(ret.val[b].items)

\* the bytes the field of the response inflates to
Inflated(key) ==
    TrendBytes(key, srv.n, IF key = srv.hit THEN srv.defect ELSE "none")

\* C19: each field "<name>.<type code>" of a trend is decoded with zlib
\* framing and the element type of its code (I uint32, f float32, B uint8,
\* H uint16): the decoded array has inflated length / width elements, the
\* elements are the bytes of the stream taken width at a time.
TrendWidthByCode ==
    (Trending /\ ret.ok) =>
        \A key \in srv.keys :
            LET a == ret.val[AttrOf(key)]
                width == CodeWidth[CodeOf(key)]
            IN /\ a.dtype = CodeType[CodeOf(key)]
               /\ ~(key = srv.hit /\ srv.defect \in {"plain", "checksum"})
               /\ Len(a.items) * width = Len(Inflated(key))
               /\ \A i \in 1..Len(a.items) :
                     a.items[i] = SubSeq(Inflated(key), (i - 1) * width + 1, i * width)

\* a parameter trend of two elements: 16-bit units, 32-bit timestamps
TrendWidthByCodeWitness ==
    /\ op = "get_param_trend"
    /\ srv.n = 2
    /\ srv.hit = "none"
    /\ ret.ok
    /\ ret.val.unit = Array("uint16", <<<<1, 0>>, <<2, 0>>>>)
    /\ ret.val.t = Array("uint32", <<<<1, 0, 0, 0>>, <<2, 0, 0, 0>>>>)
    /\ Len(ret.val.alarm.items) = 2

(***************************************************************************)
(* Properties of the timestamp formatter.                                  *)
(***************************************************************************)
\* the whole seconds from the epoch to the instant that the text names
InstantOfText == srv.days * 86400 + srv.secs - srv.utcoffset * 60

\* C20: format_timestamp(parse_timestamp(text)) is the UTC canonical form of
\* text, the date and time of its instant in UTC as isoformat() writes them
\* to the second, for every valid ISO-8601 text: with an offset other than
\* UTC, without offset, with fractional seconds.
RoundTripCanonical ==
    (op = "parse_timestamp" /\ srv.valid) =>
        /\ ret.ok
        /\ format_timestamp(ret.val) = format_timestamp(InstantOfText)

(***************************************************************************)
(* Properties of the command-line tool.                                    *)
(***************************************************************************)
\* the commands that take --time
GetCmds == {"snapshot get", "wave get", "spectrum get"}

\* the URL of the newest item, timestamp 0, that a get command asks for
NewestOf(cmd, a) ==
    CASE cmd = "snapshot get" -> "snapshots/" \o a.machine \o "/0"
      [] cmd = "wave get" ->
           "waves/" \o a.machine \o "/" \o a.point \o "/" \o a.pmode
               \o "/0?array_fmt=zint"
      [] cmd = "spectrum get" ->
           "spectra/" \o a.machine \o "/" \o a.point \o "/" \o a.pmode
               \o "/0?array_fmt=zint"

\* the name of the output file for the timestamp stamp
OutFileOf(cmd, a, stamp) ==
    CASE cmd = "snapshot get" -> "ss_" \o a.machine \o "_" \o ToString(stamp) \o ".json"
      [] cmd = "wave get" ->
           "wf_" \o a.machine \o "_" \o a.point \o "_" \o a.pmode \o "_"
               \o ToString(stamp) \o ".csv"
      [] cmd = "spectrum get" ->
           "sp_" \o a.machine \o "_" \o a.point \o "_" \o a.pmode \o "_"
               \o ToString(stamp) \o ".csv"

\* the timestamp of the response that names the file: "t" of a snapshot,
\* "snap_t" of a wave or a spectrum
ResponseStamp ==
    IF op = "snapshot get" THEN srv.answer.body.t ELSE srv.answer.body.snap_t

\* C21: a get command (wave get, spectrum get, snapshot get) run without
\* --time uses the default text 1970-01-01T00:00:00Z, which parses to epoch
\* 0 in every time zone, so its GET is the one for timestamp 0; the output
\* file is named from the timestamp in the response, not from the 0 asked.
DefaultTimeAsksNewest ==
    (op \in GetCmds /\ ~arg.time.given) =>
        /\ click_option(arg.time, DefaultTime) = "1970-01-01T00:00:00Z"
        /\ parse_timestamp("1970-01-01T00:00:00Z", srv.local) = Ok(0)
        /\ reqs # <<>>
        /\ reqs[1] = NewestOf(op, arg)
        /\ \A i \in 1..Len(files) :
              /\ files[i].name = OutFileOf(op, arg, ResponseStamp)
              /\ files[i].name # OutFileOf(op, arg, 0)

\* wave get without --time in a zone two hours ahead of UTC: the newest wave
\* is asked for and the file carries the snapshot time of the answer
DefaultTimeAsksNewestWitness ==
    /\ op = "wave get"
    /\ ~arg.time.given
    /\ srv.local = 120
    /\ ret.ok
    /\ reqs = <<"waves/LP_Turbine/MAD32CY005/AM2/0?array_fmt=zint">>
    /\ Len(files) = 1
    /\ files[1].name = "wf_LP_Turbine_MAD32CY005_AM2_1554907700.csv"

\* C22: in the commands that take --time (wave get, spectrum get, snapshot
\* get) a malformed timestamp text gives a message on standard error and
\* exit status 1 before any client call: no GET is issued and no file is
\* written by that invocation.
MalformedTimeStopsEarly ==
    (op \in GetCmds /\ arg.time.given /\ arg.time.text \in MalformedTexts) =>
        /\ ret = Raise("SystemExit: 1")
        /\ errs = <<"Invalid timestamp format: " \o arg.time.text>>
        /\ reqs = <<>>
        /\ files = <<>>

\* spectrum get --time yesterday, with an appliance that would have answered
MalformedTimeStopsEarlyWitness ==
    /\ op = "spectrum get"
    /\ arg.time = [given |-> TRUE, text |-> "yesterday"]
    /\ srv.answer.status = 200
    /\ srv.disk = "writable"
    /\ ret = Raise("SystemExit: 1")
    /\ errs = <<"Invalid timestamp format: yesterday">>
    /\ reqs = <<>>


\* the subcommands of the tool
CliCmds ==
    {"info", "license", "status", "config list", "config get",
     "config proc-modes", "config params", "snapshot list", "snapshot get",
     "wave list", "wave get", "spectrum list", "spectrum get",
     "trend machine", "trend point", "trend pmode", "trend param"}

\* C23: every subcommand ends either by completing normally or with a
\* message on standard error followed by exit status 1; no exception leaves
\* the command uncaught, the ones raised after a successful retrieval
\* included (no license in the system info, a key missing from a config or
\* a snapshot body, a sample_rate of 0).
CommandsEndCleanly ==
    op \in CliCmds =>
        \/ ret.ok /\ errs = <<>>
        \/ ret = Raise("SystemExit: 1") /\ errs # <<>>


\* C24: every Wave that get_wave returns has sample_rate > 0, so that the
\* duration len(data) / sample_rate is defined; a response whose sample_rate
\* is 0 or negative yields no Wave.
WaveSampleRatePositive ==
    (op = "get_wave" /\ ret.ok) => ret.val.sample_rate > 0


\* the value of the array_fmt parameter in the query of url, "" when the
\* query has none
ArrayFmtOf(url) ==
    LET key == "array_fmt="
        at == {i \in 1..Len(url) : i + Len(key) - 1 <= Len(url)
                                     /\ SubSeq(url, i, i + Len(key) - 1) = key}
    IN IF at = {} THEN ""
       ELSE LET last == CHOOSE i \in at : \A j \in at : j <= i
            IN SubSeq(url, last + Len(key), Len(url))

TrendOps ==
    {"get_machine_trend", "get_point_trend", "get_proc_mode_trend", "get_param_trend"}

\* C25: the format that the GET of get_wave and of get_spectrum names in its
\* array_fmt parameter is the format of the array_fmt argument, and the
\* payload of the response is decoded with that same format, the default
\* zint of the command-line tool included; a trend operation asks for zlib
\* and decodes with zlib.
RequestedFormatIsDecoded ==
    /\ (op = "get_wave" /\ reqs # <<>>) =>
          /\ ArrayFmtOf(reqs[1]) = arg.array_fmt
          /\ ret = get_wave(request(srv.answer), arg.mach, arg.point, arg.pmode,
                            arg.t, ArrayFmtOf(reqs[1]))
    /\ (op = "get_spectrum" /\ reqs # <<>>) =>
          /\ ArrayFmtOf(reqs[1]) = arg.array_fmt
          /\ ret = get_spectrum(request(srv.answer), arg.mach, arg.point, arg.pmode,
                                arg.t, ArrayFmtOf(reqs[1]))
    /\ (op = "wave get" /\ reqs # <<>>) =>
          /\ ArrayFmtOf(reqs[1]) = "zint"
          /\ LET wave == get_wave(request(srv.answer), arg.machine, arg.point,
                                  arg.pmode, 0, ArrayFmtOf(reqs[1]))
             IN ~wave.ok <=> errs = <<"Error retrieving wave: " \o wave.err>>
    /\ (op = "spectrum get" /\ reqs # <<>>) =>
          /\ ArrayFmtOf(reqs[1]) = "zint"
          /\ LET sp == get_spectrum(request(srv.answer), arg.machine, arg.point,
                                    arg.pmode, 0, ArrayFmtOf(reqs[1]))
             IN ~sp.ok <=> errs = <<"Error retrieving spectrum: " \o sp.err>>
    /\ (op \in TrendOps /\ reqs # <<>>) =>
          /\ ArrayFmtOf(reqs[1]) = "zlib"
          /\ ret.ok =>
                Ok(ret.val.t) = decode_array(srv.answer.body["t.I"],
                                             ArrayFmtOf(reqs[1]), "uint32")

\* get_wave asked for b64: the GET names b64 and the samples come back
RequestedFormatIsDecodedWitness ==
    /\ op = "get_wave"
    /\ arg.array_fmt = "b64"
    /\ reqs = <<"waves/LP_Turbine/MAD32CY005/AM2/0?array_fmt=b64">>
    /\ srv.samples = <<1, -3>>
    /\ ret.ok
    /\ Len(ret.val.data.items) = 2


\* the commands that write a file
FileCmds ==
    {"config get", "snapshot get", "wave get", "spectrum get",
     "trend machine", "trend point", "trend pmode", "trend param"}

\* what the client calls of a file-writing command return for the answers
\* the appliance gave: the first failure, or the last result
Retrieved ==
    CASE op = "config get" ->
           IF ~get_system_info(request(srv.about)).ok
           THEN get_system_info(request(srv.about))
           ELSE get_config(request(srv.answer))
      [] op = "snapshot get" -> get_snapshot(request(srv.answer))
      [] op = "wave get" ->
           get_wave(request(srv.answer), arg.machine, arg.point, arg.pmode, 0,
                    DefaultArrayFmt)
      [] op = "spectrum get" ->
           get_spectrum(request(srv.answer), arg.machine, arg.point, arg.pmode, 0,
                        DefaultArrayFmt)
      [] op = "trend machine" -> get_machine_trend(request(srv.answer))
      [] op = "trend point" -> get_point_trend(request(srv.answer))
      [] op = "trend pmode" -> get_proc_mode_trend(request(srv.answer))
      [] op = "trend param" -> get_param_trend(request(srv.answer))

\* C26: a command that writes a file (config get, snapshot get, wave get,
\* spectrum get, trend machine, point, pmode, param) writes it only after
\* the client retrieval returned: when the retrieval fails the command exits
\* with status 1 and writes no file, and a file written means the retrieval
\* succeeded.
WriteOnlyAfterRetrieval ==
    (op \in FileCmds /\ reqs # <<>>) =>
        /\ ~Retrieved.ok => (ret = Raise("SystemExit: 1") /\ files = <<>>)
        /\ files # <<>> => Retrieved.ok

\* trend machine against an appliance that answers 404, on a writable disk
WriteOnlyAfterRetrievalWitness ==
    /\ op = "trend machine"
    /\ srv.answer.status = 404
    /\ srv.disk = "writable"
    /\ reqs = <<"trends/mach/LP_Turbine?array_fmt=zlib">>
    /\ ret = Raise("SystemExit: 1")
    /\ errs = <<"Error retrieving machine trend: requests.HTTPError">>
    /\ files = <<>>

====
